---- MODULE Spec2Model ----
(***************************************************************************)
(* Signal-to-decision pipeline of the trading bot: RiskManager (risk       *)
(* gate), TradingEngine (execution queue) and TradingController (analysis  *)
(* queue), with the AIModelInterface request queue.                        *)
(*                                                                         *)
(* Money is held in cents (1 = 0.01 units of account currency).  A value   *)
(* that the code holds before its rounding to 0.01 is held in hundredths   *)
(* of a cent ("micro"), so that percentage arithmetic stays in integers.   *)
(* A field that JavaScript treats as missing (undefined, null, 0, '') is   *)
(* held as 0 or "" : the code tests these fields with ! or && only.        *)
(***************************************************************************)
EXTENDS Integers, Sequences, FiniteSets, TLC

VARIABLES
    config,         \* RiskManager.config
    accountData,    \* RiskManager.accountData (balance, dailyPL, dailyTrades, maxDailyBalance)
    dayElapsed,     \* Date.now() - accountData.lastReset > 24h
    activeTrades,   \* RiskManager.activeTrades (the keys of the Map)
    tradeHistory,   \* RiskManager.tradeHistory
    assessment,     \* the latest call of assessTradeRisk and what it returned
    signals,        \* the 'tradingSignal' events emitted by the AI controller, in order
    engineConfig,   \* TradingEngine.config
    engine,         \* TradingEngine: isActive, isProcessing, executionQueue, the request in flight
    controller,     \* TradingController: isRunning, analysisQueue and its processing loops
    brokerOrders,   \* the orders handed to brokerInterface.executeTrade, in order
    events,         \* the events emitted by the engine and the controller, per signal
    aiModel,        \* AIModelInterface: isInitialized, requestQueue, isProcessing
    sizing,         \* the latest call of RiskManager.calculatePositionSize and what it returned
    analyzer,       \* SignalAnalyzer: aiModel (set or not), historicalData, analysisCache
    calls,          \* the calls of SignalAnalyzer.analyzeSignal, in order
    latest,         \* the latest analysis that analyzeSignal has made or failed to make
    now,            \* Date.now() in milliseconds since the analyzer was constructed
    validationCall, \* the latest call of validateSignalParameters and what it returned
    robot,          \* the page script of the original bot: settings and userInfo
    orders,         \* the orders that the page has sent over the WebSocket, in order
    martingaleCall, \* the latest call of RiskManager.calculateMartingaleStep and its result
    telegram,       \* TelegramIntegration: channels, and the handleTradingSignal calls in flight
    request,        \* AIModelInterface: config, and the executeRequest call and its retries
    aiInit,         \* AIModelInterface: config, the initialize() call and the calls of its users
    queueCall,      \* a call of TradingController.addToAnalysisQueue: the queue before and after
    channelCalls,   \* TelegramIntegration: maxChannels and the addChannel calls in flight
    polling         \* TelegramIntegration: lastUpdateId and the checkForUpdates calls in flight

riskVars == <<config, accountData, dayElapsed, activeTrades, tradeHistory, assessment>>
pipeVars == <<signals, engineConfig, engine, controller, brokerOrders, events, aiModel>>

analyzerVars == <<analyzer, calls, latest, now>>
robotVars == <<robot, orders>>
lateVars == <<aiInit, queueCall, channelCalls, polling>>
moreVars == <<robotVars, martingaleCall, telegram, request, lateVars>>
unitVars == <<sizing, analyzerVars, validationCall, moreVars>>

vars == <<riskVars, pipeVars, unitVars>>

----------------------------------------------------------------------------
(* Bounds of the model *)

MaxTrades == 2          \* trades placed at the broker, each with an id of its own
MaxSignals == 2         \* 'tradingSignal' events emitted
MaxCalls == 1           \* start() and stop() calls of the controller awaiting the AI controller
MaxAnalyses == 3        \* calls of SignalAnalyzer.analyzeSignal
MaxClock == 1           \* cache windows that pass
MaxDeals == 3           \* orders that the page of the original bot sends
MaxChannelSignals == 3  \* trading signals that a Telegram channel posts
MaxCompletions == 2     \* calls of generateCompletion by the users of the AI model
MaxUpdates == 2         \* updates that the Telegram server holds for the bot
MaxPolls == 3           \* ticks of the polling interval

----------------------------------------------------------------------------
(* Helpers *)

Min(a, b) == IF a < b THEN a ELSE b
Max(a, b) == IF a > b THEN a ELSE b

TradeIds == 1..MaxTrades

Range(seq) == {seq[i] : i \in 1..Len(seq)}

----------------------------------------------------------------------------
(* RiskManager: configuration and inputs *)

\* RiskManager.constructor defaults; maxTradeAmount 50 is 5000 cents
DefaultRiskConfig ==
    [maxDailyLoss |-> 100, maxTradeAmount |-> 5000, maxConcurrentTrades |-> 5,
     maxRiskPerTrade |-> 2, accountRiskLimit |-> 10, confidenceThreshold |-> 70,
     martingaleEnabled |-> TRUE, maxMartingaleLevels |-> 5, martingaleMultiplier |-> 2]

\* configurations passed to the constructor ({...defaults, ...config})
RiskConfigs ==
    { DefaultRiskConfig,
      [DefaultRiskConfig EXCEPT !.maxDailyLoss = 50, !.maxConcurrentTrades = 1,
                                !.maxTradeAmount = 2500],
      [DefaultRiskConfig EXCEPT !.maxTradeAmount = 50] }

\* the daily trade count at which checkDailyLimits rejects
DailyTradeLimit == 50

Actions == {"CALL", "PUT", "HOLD"}
Assets == {"EUR/USD", ""}
Amounts == {0, -100, 50, 100, 1000, 6000}
Confidences == {0, 30, 75}
Volatilities == {0, 1}

\* tradeParams handed to assessTradeRisk
Orders == [action : Actions, asset : Assets, amount : Amounts, confidence : Confidences]

\* additionalContext handed to assessTradeRisk: none (executeManualTrade, the
\* tests), or the confidence of the order and the volatility of its analysis
\* (executeTradingSignal)
Contexts(tradeParams) ==
    {[confidence |-> 0, volatility |-> 0]}
        \cup [confidence : {tradeParams.confidence}, volatility : Volatilities]

\* 0 is the balance after construction
Balances == {-100, 50, 10000}
Profits == {-5100, 800}

----------------------------------------------------------------------------
(* RiskManager: the checks of assessTradeRisk *)

\* validateTradeParams without its asset check
validateTradeParams_NoAssetCheck(tradeParams, cfg) ==
    IF tradeParams.action = "" \/ tradeParams.action \notin {"CALL", "PUT"}
    THEN [valid |-> FALSE, reason |-> "Invalid or missing action parameter"]
    ELSE IF tradeParams.amount = 0 \/ tradeParams.amount <= 0
    THEN [valid |-> FALSE, reason |-> "Invalid or missing amount parameter"]
    ELSE IF tradeParams.amount > cfg.maxTradeAmount
    THEN [valid |-> FALSE, reason |-> "Trade amount exceeds maximum"]
    ELSE [valid |-> TRUE, reason |-> ""]

validateTradeParams(tradeParams, cfg) ==
    IF tradeParams.action = "" \/ tradeParams.action \notin {"CALL", "PUT"}
    THEN [valid |-> FALSE, reason |-> "Invalid or missing action parameter"]
    ELSE IF tradeParams.asset = ""
    THEN [valid |-> FALSE, reason |-> "Missing asset parameter"]
    ELSE IF tradeParams.amount = 0 \/ tradeParams.amount <= 0
    THEN [valid |-> FALSE, reason |-> "Invalid or missing amount parameter"]
    ELSE IF tradeParams.amount > cfg.maxTradeAmount
    THEN [valid |-> FALSE, reason |-> "Trade amount exceeds maximum"]
    ELSE [valid |-> TRUE, reason |-> ""]

\* Math.round(n / d) for d > 0: floor(n/d + 1/2)
RoundDiv(n, d) == (2 * n + d) \div (2 * d)

\* the stake in cents
calculatePositionSize(tradeParams, ctx, acct, cfg) ==
    LET p0 == tradeParams.amount * 100
        p1 == IF ctx.confidence # 0
              THEN tradeParams.amount * Max(50, Min(150, ctx.confidence))
              ELSE p0
        maxRiskAmount == cfg.maxRiskPerTrade * acct.balance
        p2 == IF p1 > maxRiskAmount THEN maxRiskAmount ELSE p1
        accountRiskAmount == cfg.accountRiskLimit * acct.balance
        p3 == IF p2 > accountRiskAmount THEN accountRiskAmount ELSE p2
        den == IF ctx.volatility # 0 THEN 1 + ctx.volatility ELSE 1
    IN  Max(100, RoundDiv(p3, 100 * den))

checkAccountLimits(positionSize, acct) ==
    IF acct.balance <= 0
    THEN [approved |-> FALSE, reason |-> "Insufficient account balance"]
    ELSE IF positionSize > acct.balance
    THEN [approved |-> FALSE, reason |-> "Position size exceeds account balance"]
    ELSE [approved |-> TRUE, reason |-> ""]

\* checkDailyLimits taking maxDailyLoss as a factor instead of a percentage
checkDailyLimits_NoPercent(acct, cfg) ==
    IF acct.dailyPL < -(cfg.maxDailyLoss * acct.maxDailyBalance)
    THEN [approved |-> FALSE, reason |-> "Daily loss limit reached"]
    ELSE IF acct.dailyTrades >= DailyTradeLimit
    THEN [approved |-> FALSE, reason |-> "Daily trade limit reached"]
    ELSE [approved |-> TRUE, reason |-> ""]

checkDailyLimits(acct, cfg) ==
    \* dailyPL < -(maxDailyLoss / 100) * maxDailyBalance
    IF 100 * acct.dailyPL < -(cfg.maxDailyLoss * acct.maxDailyBalance)
    THEN [approved |-> FALSE, reason |-> "Daily loss limit reached"]
    ELSE IF acct.dailyTrades >= DailyTradeLimit
    THEN [approved |-> FALSE, reason |-> "Daily trade limit reached"]
    ELSE [approved |-> TRUE, reason |-> ""]

\* checkConcurrentTrades comparing with > instead of >=
checkConcurrentTrades_OffByOne(active, cfg) ==
    IF Cardinality(active) > cfg.maxConcurrentTrades
    THEN [approved |-> FALSE, reason |-> "Maximum concurrent trades reached"]
    ELSE [approved |-> TRUE, reason |-> ""]

checkConcurrentTrades(active, cfg) ==
    IF Cardinality(active) >= cfg.maxConcurrentTrades
    THEN [approved |-> FALSE, reason |-> "Maximum concurrent trades reached"]
    ELSE [approved |-> TRUE, reason |-> ""]

\* the riskLevel of calculateRiskMetrics; reached with balance > 0 only
calculateRiskLevel(positionSize, acct) ==
    \* riskPercentage = positionSize / balance * 100
    \* dailyRiskPercentage = positionSize / maxDailyBalance * 100
    IF 100 * positionSize > 5 * acct.balance
       \/ 100 * positionSize > 15 * acct.maxDailyBalance
    THEN "high"
    ELSE IF 100 * positionSize > 2 * acct.balance
            \/ 100 * positionSize > 8 * acct.maxDailyBalance
    THEN "medium"
    ELSE "low"

checkOverallRisk(positionSize, acct) ==
    IF calculateRiskLevel(positionSize, acct) = "high"
    THEN [approved |-> FALSE, reason |-> "Overall risk level too high"]
    ELSE IF 100 * positionSize > 20 * acct.maxDailyBalance
    THEN [approved |-> FALSE, reason |-> "Account risk concentration too high"]
    ELSE [approved |-> TRUE, reason |-> ""]

Rejected(reason) == [approved |-> FALSE, reason |-> reason, positionSize |-> 0]

\* what assessTradeRisk returns, after its resetDailyMetrics call has produced acct
assessTradeRisk(tradeParams, ctx, acct, active, cfg) ==
    LET validation == validateTradeParams(tradeParams, cfg)
        positionSize == calculatePositionSize(tradeParams, ctx, acct, cfg)
        accountCheck == checkAccountLimits(positionSize, acct)
        dailyCheck == checkDailyLimits(acct, cfg)
        concurrentCheck == checkConcurrentTrades(active, cfg)
        overallRiskCheck == checkOverallRisk(positionSize, acct)
    IN  IF ~validation.valid THEN Rejected(validation.reason)
        ELSE IF ~accountCheck.approved THEN Rejected(accountCheck.reason)
        ELSE IF ~dailyCheck.approved THEN Rejected(dailyCheck.reason)
        ELSE IF ~concurrentCheck.approved THEN Rejected(concurrentCheck.reason)
        ELSE IF ~overallRiskCheck.approved THEN Rejected(overallRiskCheck.reason)
        ELSE [approved |-> TRUE, reason |-> "", positionSize |-> positionSize]

\* resetDailyMetrics resetting the high-water mark of the day as well
resetDailyMetrics_AlsoHighWater(acct, elapsed) ==
    IF elapsed THEN [acct EXCEPT !.dailyPL = 0, !.dailyTrades = 0, !.maxDailyBalance = 0]
    ELSE acct

\* accountData after resetDailyMetrics
resetDailyMetrics(acct, elapsed) ==
    IF elapsed THEN [acct EXCEPT !.dailyPL = 0, !.dailyTrades = 0] ELSE acct

----------------------------------------------------------------------------
(* RiskManager: state and operations *)

NoOrder == [action |-> "", asset |-> "", amount |-> 0, confidence |-> 0]
NoContext == [confidence |-> 0, volatility |-> 0]
\* raised: an exception was raised inside assessTradeRisk; threw: the call
\* ended by throwing it to its caller
NoAssessment ==
    [called |-> FALSE, tradeParams |-> NoOrder, ctx |-> NoContext, result |-> Rejected(""),
     raised |-> FALSE, threw |-> FALSE]

InitRiskManager ==
    /\ accountData = [balance |-> 0, dailyPL |-> 0, dailyTrades |-> 0, maxDailyBalance |-> 0]
    /\ dayElapsed = FALSE
    /\ activeTrades = {}
    /\ tradeHistory = <<>>
    /\ assessment = NoAssessment

\* a day passes since accountData.lastReset
DayPasses ==
    /\ ~assessment.called
    /\ ~dayElapsed
    /\ dayElapsed' = TRUE
    /\ UNCHANGED <<config, accountData, activeTrades, tradeHistory, assessment>>

AssessTradeRisk(tradeParams, ctx) ==
    LET acct == resetDailyMetrics(accountData, dayElapsed)
    IN  /\ ~assessment.called
        /\ accountData' = acct
        /\ dayElapsed' = FALSE
        /\ assessment' = [called |-> TRUE, tradeParams |-> tradeParams, ctx |-> ctx,
                          result |-> assessTradeRisk(tradeParams, ctx, acct, activeTrades, config),
                          raised |-> FALSE, threw |-> FALSE]
        /\ UNCHANGED <<config, activeTrades, tradeHistory>>

\* what the catch of assessTradeRisk returns for the error it has caught
assessmentError == Rejected("Risk assessment error")

\* assessTradeRisk(null): validateTradeParams reads tradeParams.action, a
\* TypeError inside the try block
AssessTradeRiskOfNull ==
    /\ ~assessment.called
    /\ accountData' = resetDailyMetrics(accountData, dayElapsed)
    /\ dayElapsed' = FALSE
    /\ assessment' = [NoAssessment EXCEPT !.called = TRUE, !.result = assessmentError,
                                          !.raised = TRUE]
    /\ UNCHANGED <<config, activeTrades, tradeHistory>>

\* assessTradeRisk(tradeParams, null): the default {} stands in for undefined
\* only, and calculatePositionSize reads additionalContext.confidence, a
\* TypeError inside the try block, once validateTradeParams has passed
AssessTradeRiskInNullContext(tradeParams) ==
    LET validation == validateTradeParams(tradeParams, config)
    IN  /\ ~assessment.called
        /\ accountData' = resetDailyMetrics(accountData, dayElapsed)
        /\ dayElapsed' = FALSE
        /\ assessment' = [NoAssessment EXCEPT
                            !.called = TRUE, !.tradeParams = tradeParams,
                            !.result = IF validation.valid THEN assessmentError
                                       ELSE Rejected(validation.reason),
                            !.raised = validation.valid]
        /\ UNCHANGED <<config, activeTrades, tradeHistory>>

UpdateAccountBalance(newBalance) ==
    /\ ~assessment.called
    /\ accountData' = [accountData EXCEPT !.balance = newBalance,
                           !.maxDailyBalance = Max(accountData.maxDailyBalance, newBalance)]
    /\ UNCHANGED <<config, dayElapsed, activeTrades, tradeHistory, assessment>>

\* the caller has taken the value that assessTradeRisk returned
AssessmentReturned ==
    /\ assessment.called
    /\ assessment' = NoAssessment
    /\ UNCHANGED <<config, accountData, dayElapsed, activeTrades, tradeHistory>>

NoSizing == [called |-> FALSE, tradeParams |-> NoOrder, ctx |-> NoContext, result |-> 0]

\* calculatePositionSize called on its own, on the account as it stands
CalculatePositionSize(tradeParams, ctx) ==
    /\ ~assessment.called
    /\ ~sizing.called
    /\ sizing' = [called |-> TRUE, tradeParams |-> tradeParams, ctx |-> ctx,
                  result |-> calculatePositionSize(tradeParams, ctx, accountData, config)]
    /\ UNCHANGED riskVars

\* the caller has taken the value that calculatePositionSize returned
SizingReturned ==
    /\ sizing.called
    /\ sizing' = NoSizing
    /\ UNCHANGED riskVars

RECURSIVE multiplied(_, _, _)
\* for (i = 0; i < currentStep; i++) martingaleAmount *= multiplier
multiplied(martingaleAmount, multiplier, currentStep) ==
    IF currentStep <= 0 THEN martingaleAmount
    ELSE multiplied(martingaleAmount * multiplier, multiplier, currentStep - 1)

\* the stake in cents; balance * 0.5 is half a cent at most away from a cent
calculateMartingaleStep(originalAmount, currentStep, acct, cfg) ==
    IF ~cfg.martingaleEnabled THEN originalAmount
    ELSE IF currentStep >= cfg.maxMartingaleLevels THEN originalAmount
    ELSE LET martingaleAmount ==
                    multiplied(originalAmount, cfg.martingaleMultiplier, currentStep)
             limited == Min(martingaleAmount, originalAmount * 10)
         IN  IF 2 * limited > acct.balance THEN RoundDiv(acct.balance, 2) ELSE limited

\* the step indexes handed to calculateMartingaleStep
MartingaleSteps == {0, 1, 4, 5, 6}

NoMartingaleCall == [called |-> FALSE, originalAmount |-> 0, currentStep |-> 0, result |-> 0]

\* calculateMartingaleStep called on the account as it stands
CalculateMartingaleStep(originalAmount, currentStep) ==
    /\ ~martingaleCall.called
    /\ martingaleCall' =
            [called |-> TRUE, originalAmount |-> originalAmount, currentStep |-> currentStep,
             result |-> calculateMartingaleStep(originalAmount, currentStep, accountData,
                                                config)]
    /\ UNCHANGED riskVars

\* the caller has taken the value that calculateMartingaleStep returned
MartingaleStepReturned ==
    /\ martingaleCall.called
    /\ martingaleCall' = NoMartingaleCall
    /\ UNCHANGED riskVars

\* accountData, activeTrades and tradeHistory, as recordTrade and
\* updateTradeResult change them
RiskState ==
    [accountData |-> accountData, activeTrades |-> activeTrades, tradeHistory |-> tradeHistory]

SetRiskState(rm) ==
    /\ accountData' = rm.accountData
    /\ activeTrades' = rm.activeTrades
    /\ tradeHistory' = rm.tradeHistory

\* the broker (or generateTradeId) names each trade with an id not used before
FreshTradeId(rm, id) ==
    /\ id \notin rm.activeTrades \cup Range(rm.tradeHistory)
    /\ \A j \in 1..(id - 1) : j \in rm.activeTrades \cup Range(rm.tradeHistory)

recordTrade(rm, id) ==
    [rm EXCEPT !.activeTrades = @ \cup {id}, !.accountData.dailyTrades = @ + 1]

\* a result that sets the high-water mark to the balance after the trade
updateTradeResult_MarkFollowsBalance(rm, tradeId, profit) ==
    IF tradeId \notin rm.activeTrades
    THEN rm
    ELSE LET pl == rm.accountData.dailyPL + profit
         IN  [rm EXCEPT !.accountData.dailyPL = pl,
                        !.accountData.maxDailyBalance = rm.accountData.balance + pl,
                        !.tradeHistory = Append(@, tradeId),
                        !.activeTrades = @ \ {tradeId}]

\* a result that is counted whether the trade is active or not
updateTradeResult_CountsEveryResult(rm, tradeId, profit) ==
    LET pl == rm.accountData.dailyPL + profit
        currentBalance == rm.accountData.balance + pl
    IN  [rm EXCEPT !.accountData.dailyPL = pl,
                   !.accountData.maxDailyBalance = Max(@, currentBalance),
                   !.tradeHistory = IF tradeId \in rm.activeTrades THEN Append(@, tradeId) ELSE @,
                   !.activeTrades = @ \ {tradeId}]

updateTradeResult(rm, tradeId, profit) ==
    IF tradeId \notin rm.activeTrades
    THEN rm
    ELSE LET pl == rm.accountData.dailyPL + profit
             currentBalance == rm.accountData.balance + pl
         IN  [rm EXCEPT !.accountData.dailyPL = pl,
                        !.accountData.maxDailyBalance = Max(@, currentBalance),
                        !.tradeHistory = Append(@, tradeId),
                        !.activeTrades = @ \ {tradeId}]

\* resetDailyMetrics called on its own
ResetDailyMetrics ==
    /\ ~assessment.called
    /\ accountData' = resetDailyMetrics(accountData, dayElapsed)
    /\ dayElapsed' = FALSE
    /\ UNCHANGED <<config, activeTrades, tradeHistory, assessment>>

\* resetMetrics: accountData, activeTrades and tradeHistory as constructed
ResetMetrics ==
    /\ ~assessment.called
    /\ accountData' = [balance |-> 0, dailyPL |-> 0, dailyTrades |-> 0, maxDailyBalance |-> 0]
    /\ dayElapsed' = FALSE
    /\ activeTrades' = {}
    /\ tradeHistory' = <<>>
    /\ UNCHANGED <<config, assessment>>

RecordTrade(id) ==
    /\ ~assessment.called
    /\ FreshTradeId(RiskState, id)
    /\ SetRiskState(recordTrade(RiskState, id))
    /\ UNCHANGED <<config, dayElapsed, assessment>>

UpdateTradeResult(tradeId, profit) ==
    /\ ~assessment.called
    /\ SetRiskState(updateTradeResult(RiskState, tradeId, profit))
    /\ UNCHANGED <<config, dayElapsed, assessment>>

----------------------------------------------------------------------------
(* The 'tradingSignal' event and the strategies *)

SignalIds == 1..MaxSignals
Channels == {"c1", "c2"}
SignalConfidences == {65, 75}       \* analysis.confidence = tradingParams.confidence
SignalAges == {0, 60000}            \* Date.now() - signal.timestamp on arrival, in ms

NoStrategySignal == [signal |-> "", confidence |-> 0]

\* what strategies.aiEnhancedStrategy({}, timestamp, analysis) yields: with empty
\* market data only signalsStrategy(analysis.signalData) can give a signal
AIEnhancedResults == {NoStrategySignal, [signal |-> "CALL", confidence |-> 85]}

\* SignalAnalyzer.calculatePositionSize, in cents
SignalPositionSize(confidence) ==
    IF confidence >= 90 THEN 2500
    ELSE IF confidence >= 80 THEN 2000
    ELSE IF confidence >= 70 THEN 1500
    ELSE IF confidence >= 60 THEN 1000
    ELSE 500

\* data.tradingParams of a signal (SignalAnalyzer.generateTradingParameters)
TradingParams(sig) ==
    [action |-> "CALL", asset |-> "EUR/USD", amount |-> SignalPositionSize(sig.confidence),
     expiration |-> 300, confidence |-> sig.confidence]

----------------------------------------------------------------------------
(* TradingEngine: validation and decision *)

DefaultEngineConfig == [enabled |-> TRUE, autoExecute |-> TRUE, confidenceThreshold |-> 70]

\* configurations passed to the constructor ({...defaults, ...config})
EngineConfigs == {DefaultEngineConfig, [DefaultEngineConfig EXCEPT !.confidenceThreshold = 80]}

validateTradingParams(params, cfg) ==
    IF params.action = "" \/ params.asset = "" \/ params.amount = 0 \/ params.expiration = 0
    THEN [valid |-> FALSE, reason |-> "Missing required parameters"]
    ELSE IF params.confidence < cfg.confidenceThreshold
    THEN [valid |-> FALSE, reason |-> "Confidence below threshold"]
    ELSE [valid |-> TRUE, reason |-> ""]

\* generateStrategySignals: getMarketData returns {}, for which cciStrategy,
\* candlesStrategy and pinBarStrategy give no signal
generateStrategySignals(sig) ==
    [cci |-> NoStrategySignal, candles |-> NoStrategySignal, pinBar |-> NoStrategySignal,
     aiEnhanced |-> sig.aiEnhanced]

StrategyNames == {"cci", "candles", "pinBar", "aiEnhanced"}

\* the sum of s[n].confidence over the names of a set
RECURSIVE SumConfidence(_, _)
SumConfidence(strategySignals, names) ==
    IF names = {} THEN 0
    ELSE LET n == CHOOSE x \in names : TRUE
         IN  strategySignals[n].confidence + SumConfidence(strategySignals, names \ {n})

\* makeTradingDecision; the confidence is compared as sum/count < threshold
makeTradingDecision(strategySignals, cfg) ==
    LET valid == {n \in StrategyNames : strategySignals[n].signal # ""}
        uniqueSignals == {strategySignals[n].signal : n \in valid}
        consensus == Cardinality(uniqueSignals) = 1
        aiSignal == strategySignals.aiEnhanced
    IN  IF valid = {} THEN [execute |-> FALSE, reason |-> "No trading signals generated"]
        ELSE IF ~consensus /\ aiSignal.signal = ""
        THEN [execute |-> FALSE, reason |-> "No consensus among strategies and no AI decision"]
        ELSE IF \/ consensus /\ SumConfidence(strategySignals, valid)
                                    < cfg.confidenceThreshold * Cardinality(valid)
                \/ ~consensus /\ aiSignal.confidence < cfg.confidenceThreshold
        THEN [execute |-> FALSE, reason |-> "Confidence below threshold"]
        ELSE [execute |-> TRUE, reason |-> ""]

----------------------------------------------------------------------------
(* The state that the handlers of the engine and the controller work on.  A  *)
(* handler runs from one await of input/output to the next without           *)
(* interleaving; an await of a value that is already there (an async         *)
(* function without input/output) does not let another handler in.           *)

State ==
    [engine |-> engine, controller |-> controller, brokerOrders |-> brokerOrders,
     events |-> events, rm |-> RiskState, dayElapsed |-> dayElapsed]

SetState(st) ==
    /\ engine' = st.engine
    /\ controller' = st.controller
    /\ brokerOrders' = st.brokerOrders
    /\ events' = st.events
    /\ SetRiskState(st.rm)
    /\ dayElapsed' = st.dayElapsed

\* confidences that the controller computes are held in 1/240 of a percent
ConfidenceScale == 240

\* an order as brokerInterface.executeTrade gets it
BrokerOrder(id, via, amount, confidence) ==
    [signal |-> id, via |-> via, amount |-> amount, confidence |-> confidence]

\* riskManager.assessTradeRisk called by a handler: resetDailyMetrics first
assessed(st) ==
    [st EXCEPT !.rm.accountData = resetDailyMetrics(@, st.dayElapsed), !.dayElapsed = FALSE]

----------------------------------------------------------------------------
(* TradingEngine: the execution queue *)

InitEngine ==
    /\ engineConfig \in EngineConfigs
    /\ engine = [isActive |-> FALSE, isProcessing |-> FALSE, executionQueue |-> <<>>,
                 inBroker |-> {}]   \* requests whose executeTrade awaits the broker

\* executeTradingSignal(request) up to its await of brokerInterface.executeTrade:
\* "failed", "completed" (autoExecute off) or "broker" (the order is with the broker)
executeTradingSignal(st, sigs, id, cfg) ==
    LET params == TradingParams(sigs[id])
        validation == validateTradingParams(params, cfg)
        st1 == assessed(st)
        riskAssessment ==
            assessTradeRisk(params, [confidence |-> params.confidence, volatility |-> 0],
                            st1.rm.accountData, st1.rm.activeTrades, config)
        tradingDecision == makeTradingDecision(generateStrategySignals(sigs[id]), cfg)
    IN  IF ~validation.valid
        THEN [st EXCEPT !.events.executionFailed = @ \cup {id}]
        ELSE IF ~riskAssessment.approved \/ ~tradingDecision.execute
        THEN [st1 EXCEPT !.events.executionFailed = @ \cup {id}]
        ELSE IF ~cfg.autoExecute
        THEN [st1 EXCEPT !.events.executionCompleted = @ \cup {id}]
        ELSE [st1 EXCEPT !.engine.inBroker = @ \cup {id},
                         !.brokerOrders = Append(@,
                              BrokerOrder(id, "executionQueue", riskAssessment.positionSize,
                                          params.confidence * ConfidenceScale))]

\* a loop that leaves isProcessing set when stop() ends it
RECURSIVE executionLoop_StopKeepsFlag(_, _, _)
executionLoop_StopKeepsFlag(st, sigs, cfg) ==
    IF st.engine.executionQueue = <<>>
    THEN [st EXCEPT !.engine.isProcessing = FALSE]
    ELSE IF ~st.engine.isActive
    THEN st
    ELSE LET id == Head(st.engine.executionQueue)
             st1 == executeTradingSignal([st EXCEPT !.engine.executionQueue = Tail(@)],
                                         sigs, id, cfg)
         IN  IF id \in st1.engine.inBroker THEN st1
             ELSE executionLoop_StopKeepsFlag(st1, sigs, cfg)

\* the while loop of processExecutionQueue, from its test to the next await
RECURSIVE executionLoop(_, _, _)
executionLoop(st, sigs, cfg) ==
    IF st.engine.executionQueue = <<>> \/ ~st.engine.isActive
    THEN [st EXCEPT !.engine.isProcessing = FALSE]
    ELSE LET id == Head(st.engine.executionQueue)
             st1 == executeTradingSignal([st EXCEPT !.engine.executionQueue = Tail(@)],
                                         sigs, id, cfg)
         IN  IF id \in st1.engine.inBroker THEN st1 ELSE executionLoop(st1, sigs, cfg)

processExecutionQueue(st, sigs, cfg) ==
    IF st.engine.isProcessing \/ st.engine.executionQueue = <<>>
    THEN st
    ELSE executionLoop([st EXCEPT !.engine.isProcessing = TRUE], sigs, cfg)

\* TradingEngine.handleTradingSignal
engineHandleTradingSignal(st, sigs, id, cfg) ==
    IF ~st.engine.isActive \/ ~cfg.enabled
    THEN st
    ELSE processExecutionQueue([st EXCEPT !.engine.executionQueue = Append(@, id)], sigs, cfg)

EngineStart ==
    /\ ~assessment.called
    /\ ~engine.isActive
    /\ SetState(processExecutionQueue([State EXCEPT !.engine.isActive = TRUE],
                                      signals, engineConfig))
    /\ UNCHANGED <<config, assessment, signals, engineConfig, aiModel>>

EngineStop ==
    /\ ~assessment.called
    /\ engine.isActive
    /\ engine' = [engine EXCEPT !.isActive = FALSE]
    /\ UNCHANGED <<riskVars, signals, engineConfig, controller, brokerOrders, events, aiModel>>

\* what brokerInterface.executeTrade does
BrokerOutcomes == {"tradeId", "noTradeId", "throws"}

\* brokerInterface.executeTrade settles for the request of the execution queue:
\* executeTrade records the trade, executeTradingSignal and recordTrade finish
\* the request, and the loop goes on
EngineBrokerReturns(sig, outcome, id) ==
    LET st == [State EXCEPT !.engine.inBroker = @ \ {sig}]
        recorded == [st EXCEPT !.rm = recordTrade(@, id)]
        st1 == CASE outcome = "throws" ->
                      [st EXCEPT !.events.executionFailed = @ \cup {sig}]
                 [] outcome = "noTradeId" ->
                      [recorded EXCEPT !.events.executionCompleted = @ \cup {sig}]
                 [] outcome = "tradeId" ->
                      [recorded EXCEPT !.events.executionCompleted = @ \cup {sig},
                                       !.rm = updateTradeResult(@, id, 0)]
    IN  /\ ~assessment.called
        /\ sig \in engine.inBroker
        /\ IF outcome = "throws" THEN id = 1 ELSE FreshTradeId(RiskState, id)
        /\ SetState(executionLoop(st1, signals, engineConfig))
        /\ UNCHANGED <<config, assessment, signals, engineConfig, aiModel>>

----------------------------------------------------------------------------
(* TradingController: priorities, enhanced analysis *)

HighPriorityAssets == {"EUR/USD", "GBP/USD", "BTC/USD"}

\* the length to which addToAnalysisQueue cuts the queue
AnalysisQueueLimit == 100

\* calculatePriority, in tenths
calculatePriority(sig) ==
    LET byConfidence == IF sig.confidence # 0 THEN 3 * sig.confidence ELSE 0
        byAge == Max(0, 500 - sig.age \div 100)
        byAsset == IF TradingParams(sig).asset \in HighPriorityAssets THEN 100 ELSE 0
    IN  Min(1000, Max(0, 500 + byConfidence + byAge + byAsset))

\* two sorted runs merged, an item of the first run in front of the items of
\* the second that do not have a higher priority
MergePlaced(first, second, placeOfFirst) ==
    LET places == Range(placeOfFirst)
    IN  [k \in 1..(Len(first) + Len(second)) |->
            LET taken == Cardinality({p \in places : p <= k})
            IN  IF k \in places THEN first[taken] ELSE second[k - taken]]

MergeByPriority(first, second) ==
    MergePlaced(first, second,
        [i \in DOMAIN first |->
            i + Cardinality({j \in DOMAIN second : second[j].priority > first[i].priority})])

\* analysisQueue.sort((a, b) => b.priority - a.priority): a stable sort
RECURSIVE SortByPriority(_)
SortByPriority(queue) ==
    IF Len(queue) <= 1 THEN queue
    ELSE LET half == Len(queue) \div 2
         IN  MergeByPriority(SortByPriority(SubSeq(queue, 1, half)),
                             SortByPriority(SubSeq(queue, half + 1, Len(queue))))

\* a queue that is cut to its limit without sorting it
addToAnalysisQueue_Unsorted(queue, id, sig) ==
    LET pushed == Append(queue, [signal |-> id, priority |-> calculatePriority(sig)])
    IN  SubSeq(pushed, 1, Min(Len(pushed), AnalysisQueueLimit))

addToAnalysisQueue(queue, id, sig) ==
    LET sorted == SortByPriority(Append(queue, [signal |-> id, priority |-> calculatePriority(sig)]))
    IN  SubSeq(sorted, 1, Min(Len(sorted), AnalysisQueueLimit))

\* the signals of the calls of addToAnalysisQueue: priorities 60 to 100
QueueSignals == [confidence : {0, 65, 95}, age : {0, 30000, 60000}]

QueuePriorities == {calculatePriority(sig) : sig \in QueueSignals}

\* the lengths of the queue before the call
QueueLengths == {0, 1, 2, AnalysisQueueLimit - 1, AnalysisQueueLimit}

\* a queue as addToAnalysisQueue has left it: sorted, with `high` items of the
\* upper priority in front of the items of the lower one
SortedQueue(length, high, upper, lower) ==
    [i \in 1..length |-> [signal |-> i, priority |-> IF i <= high THEN upper ELSE lower]]

SortedQueues ==
    { SortedQueue(length, high, upper, lower) :
        length \in QueueLengths, high \in {0, 1, AnalysisQueueLimit \div 2, AnalysisQueueLimit},
        upper \in QueuePriorities, lower \in QueuePriorities \cap {600, 800, 1000} }

NoQueueCall ==
    [called |-> FALSE, before |-> <<>>, item |-> [signal |-> 0, priority |-> 0], after |-> <<>>]

\* addToAnalysisQueue(data) on the analysisQueue of the controller
AddToAnalysisQueue(sig) ==
    /\ ~queueCall.called
    /\ queueCall' = [called |-> TRUE, before |-> queueCall.before,
                     item |-> [signal |-> Len(queueCall.before) + 1,
                               priority |-> calculatePriority(sig)],
                     after |-> addToAnalysisQueue(queueCall.before,
                                                  Len(queueCall.before) + 1, sig)]

DefaultControllerConfig == [enabled |-> TRUE, autoExecute |-> TRUE]

NoStrategyResults ==
    [cci |-> NoStrategySignal, candles |-> NoStrategySignal, pinBar |-> NoStrategySignal,
     aiEnhanced |-> NoStrategySignal]

\* what the four calls of tradingEngine.executeStrategy give for the market data
\* of the moment
StrategyResults ==
    { NoStrategyResults,
      [NoStrategyResults EXCEPT !.aiEnhanced = [signal |-> "CALL", confidence |-> 80]],
      [NoStrategyResults EXCEPT !.cci = [signal |-> "PUT", confidence |-> 90],
                                !.aiEnhanced = [signal |-> "CALL", confidence |-> 80]] }

\* tradingEngine.executeStrategy is called on an engine that defines no such
\* method (a TypeError is thrown), or it gives the results of the strategies
StrategyOutcomes ==
    {[threw |-> TRUE, results |-> NoStrategyResults]}
        \cup [threw : {FALSE}, results : StrategyResults]

\* the order in which Object.entries(strategyResults) gives the strategies
StrategyOrder == <<"cci", "candles", "pinBar", "aiEnhanced">>

\* selectBestStrategy: the name of the best strategy, "" for null
selectBestStrategy(strategyResults) ==
    LET scoring == {i \in 1..4 : /\ strategyResults[StrategyOrder[i]].signal # ""
                                 /\ strategyResults[StrategyOrder[i]].confidence > 0}
        best == {i \in scoring :
                    \A j \in scoring :
                        \/ strategyResults[StrategyOrder[j]].confidence
                                < strategyResults[StrategyOrder[i]].confidence
                        \/ /\ strategyResults[StrategyOrder[j]].confidence
                                = strategyResults[StrategyOrder[i]].confidence
                           /\ i <= j}
    IN  IF scoring = {} THEN "" ELSE StrategyOrder[CHOOSE i \in best : TRUE]

\* calculateFinalConfidence, in 1/240 of a percent
calculateFinalConfidence(analysisConfidence, strategyResults, bestStrategy) ==
    LET base == IF analysisConfidence # 0 THEN analysisConfidence ELSE 50
        blended == IF bestStrategy = "" THEN ConfidenceScale * base
                   ELSE IF bestStrategy = "aiEnhanced"
                   THEN 132 * (base + strategyResults[bestStrategy].confidence)
                   ELSE 120 * (base + strategyResults[bestStrategy].confidence)
        validStrategies == {n \in StrategyNames : strategyResults[n].signal # ""}
        consensus == {n \in validStrategies :
                         strategyResults[n].signal = strategyResults[bestStrategy].signal}
        agreed == IF Cardinality(validStrategies) > 1
                  THEN (blended * Cardinality(consensus)) \div Cardinality(validStrategies)
                  ELSE blended
    IN  Min(100 * ConfidenceScale, Max(0, agreed))

shouldExecuteTrade(confidence, bestStrategy, cfg) ==
    IF confidence < 70 * ConfidenceScale THEN FALSE
    ELSE IF bestStrategy = "" THEN FALSE
    ELSE IF ~cfg.enabled THEN FALSE
    ELSE IF ~cfg.autoExecute THEN FALSE
    ELSE TRUE

\* generateEnhancedTradingParams; confidence in 1/240 of a percent
generateEnhancedTradingParams(originalParams, strategyResults, bestStrategy, finalConfidence) ==
    LET confidenceMultiplier ==
            Max(50 * ConfidenceScale, Min(150 * ConfidenceScale, finalConfidence))
    IN  [originalParams EXCEPT
            !.amount = Max(100, RoundDiv(originalParams.amount * confidenceMultiplier,
                                         100 * ConfidenceScale)),
            !.action = IF bestStrategy # "" THEN strategyResults[bestStrategy].signal ELSE @,
            !.confidence = finalConfidence]

----------------------------------------------------------------------------
(* TradingController: the analysis queue *)

\* the controller after its initialize() has completed
InitController ==
    controller = [isRunning |-> FALSE, isProcessingAnalysis |-> FALSE, analysisQueue |-> <<>>,
                  inBroker |-> {},      \* items whose executeManualTrade awaits the broker
                  delaying |-> 0,       \* loops of processAnalysisQueue in their 100 ms delay
                  starting |-> 0,       \* start() calls awaiting aiController.start()
                  stopping |-> 0,       \* stop() calls awaiting aiController.stop()
                  dequeued |-> <<>>]    \* the signals shifted from the queue, in order

\* processAnalysisItem up to the await of brokerInterface.executeTrade in
\* tradingEngine.executeManualTrade
processAnalysisItem(st, sigs, id, outcome) ==
    LET tradingParams == TradingParams(sigs[id])
        strategyResults == outcome.results
        bestStrategy == selectBestStrategy(strategyResults)
        validStrategies == {n \in StrategyNames : strategyResults[n].signal # ""}
        finalConfidence ==
            calculateFinalConfidence(sigs[id].confidence, strategyResults, bestStrategy)
        shouldExecute == shouldExecuteTrade(finalConfidence, bestStrategy, DefaultControllerConfig)
        enhancedParams ==
            generateEnhancedTradingParams(tradingParams, strategyResults, bestStrategy,
                                          finalConfidence)
        st1 == assessed(st)
        riskAssessment ==
            assessTradeRisk(enhancedParams, NoContext, st1.rm.accountData,
                            st1.rm.activeTrades, config)
    IN  IF outcome.threw
        THEN [st EXCEPT !.events.analysisError = @ \cup {id}]
        ELSE IF bestStrategy = "" /\ Cardinality(validStrategies) > 1
        THEN [st EXCEPT !.events.analysisError = @ \cup {id}]
        ELSE IF ~shouldExecute
        THEN st
        ELSE IF ~riskAssessment.approved
        THEN [st1 EXCEPT !.events.enhancedTradeExecuted = @ \cup {id}]
        ELSE [st1 EXCEPT !.controller.inBroker = @ \cup {id},
                         !.brokerOrders = Append(@,
                              BrokerOrder(id, "executeManualTrade",
                                          riskAssessment.positionSize, finalConfidence))]

\* processAnalysisQueue after an item: the delay when items wait, then the test
\* of the while loop, which ends the loop when the queue is empty
afterAnalysisItem(st) ==
    IF st.controller.analysisQueue # <<>>
    THEN [st EXCEPT !.controller.delaying = @ + 1]
    ELSE [st EXCEPT !.controller.isProcessingAnalysis = FALSE]

\* processAnalysisQueue from the test of its while loop to the next await
processAnalysisQueue(st, sigs, outcome) ==
    IF st.controller.isProcessingAnalysis /\ st.controller.analysisQueue # <<>>
    THEN LET item == Head(st.controller.analysisQueue)
             st1 == processAnalysisItem(
                        [st EXCEPT !.controller.analysisQueue = Tail(@),
                                   !.controller.dequeued = Append(@, item.signal)],
                        sigs, item.signal, outcome)
         IN  IF item.signal \in st1.controller.inBroker THEN st1 ELSE afterAnalysisItem(st1)
    ELSE [st EXCEPT !.controller.isProcessingAnalysis = FALSE]

startAnalysisProcessing(st, sigs, outcome) ==
    IF st.controller.isProcessingAnalysis
    THEN st
    ELSE processAnalysisQueue([st EXCEPT !.controller.isProcessingAnalysis = TRUE], sigs, outcome)

\* start() up to its await of aiController.start()
ControllerStart ==
    /\ ~assessment.called
    /\ ~controller.isRunning
    /\ controller.starting + controller.stopping < MaxCalls
    /\ controller' = [controller EXCEPT !.starting = @ + 1]
    /\ UNCHANGED <<riskVars, signals, engineConfig, engine, brokerOrders, events, aiModel>>

\* aiController.start() has settled: start() goes on, or fails with it
ControllerStartResumes(started, outcome) ==
    LET st == [State EXCEPT !.controller.starting = @ - 1]
    IN  /\ ~assessment.called
        /\ controller.starting > 0
        /\ IF started
           THEN SetState([startAnalysisProcessing(st, signals, outcome)
                              EXCEPT !.controller.isRunning = TRUE])
           ELSE SetState(st)
        /\ UNCHANGED <<config, assessment, signals, engineConfig, aiModel>>

\* stop() up to its await of aiController.stop()
ControllerStop ==
    /\ ~assessment.called
    /\ controller.isRunning
    /\ controller.starting + controller.stopping < MaxCalls
    /\ controller' = [controller EXCEPT !.stopping = @ + 1]
    /\ UNCHANGED <<riskVars, signals, engineConfig, engine, brokerOrders, events, aiModel>>

\* aiController.stop() has settled: stop() goes on, or fails with it
ControllerStopResumes(stopped) ==
    /\ ~assessment.called
    /\ controller.stopping > 0
    /\ controller' = IF stopped
                     THEN [controller EXCEPT !.stopping = @ - 1,
                                             !.isProcessingAnalysis = FALSE,
                                             !.isRunning = FALSE]
                     ELSE [controller EXCEPT !.stopping = @ - 1]
    /\ UNCHANGED <<riskVars, signals, engineConfig, engine, brokerOrders, events, aiModel>>

\* brokerInterface.executeTrade settles for an item of the analysis queue:
\* executeEnhancedTrade returns, 'enhancedTradeExecuted' is emitted, the loop goes on
ControllerBrokerReturns(id) ==
    /\ ~assessment.called
    /\ id \in controller.inBroker
    /\ SetState(afterAnalysisItem([State EXCEPT !.controller.inBroker = @ \ {id},
                                                !.events.enhancedTradeExecuted = @ \cup {id}]))
    /\ UNCHANGED <<config, assessment, signals, engineConfig, aiModel>>

\* the 100 ms delay of a loop has passed
AnalysisDelayPasses(outcome) ==
    /\ ~assessment.called
    /\ controller.delaying > 0
    /\ SetState(processAnalysisQueue([State EXCEPT !.controller.delaying = @ - 1],
                                     signals, outcome))
    /\ UNCHANGED <<config, assessment, signals, engineConfig, aiModel>>

\* the AI controller emits 'tradingSignal': the handler of the engine
\* (setAIController) runs first, then the handler of the controller
\* (setupEventHandlers)
EmitTradingSignal(sig) ==
    LET id == Len(signals) + 1
        sigs == Append(signals, sig)
        st1 == engineHandleTradingSignal(State, sigs, id, engineConfig)
        st2 == [st1 EXCEPT !.controller.analysisQueue = addToAnalysisQueue(@, id, sig)]
    IN  /\ ~assessment.called
        /\ Len(signals) < MaxSignals
        /\ sig.whileRunning = controller.isRunning
        /\ signals' = sigs
        /\ SetState(st2)
        /\ UNCHANGED <<config, assessment, engineConfig, aiModel>>

\* the signals that the AI controller emits: an old and a fresh signal of one
\* channel that pass the engine's validation at threshold 70, a fresh one below
\* it, and a fresh one of another channel
SignalKinds ==
    { [channel |-> "c1", confidence |-> 75, age |-> 60000,
       aiEnhanced |-> [signal |-> "CALL", confidence |-> 85]],
      [channel |-> "c1", confidence |-> 75, age |-> 0,
       aiEnhanced |-> [signal |-> "CALL", confidence |-> 85]],
      [channel |-> "c1", confidence |-> 65, age |-> 0, aiEnhanced |-> NoStrategySignal],
      [channel |-> "c2", confidence |-> 75, age |-> 0, aiEnhanced |-> NoStrategySignal] }

\* whileRunning records whether the controller was running when it got the signal
Signals ==
    {[channel |-> k.channel, confidence |-> k.confidence, age |-> k.age,
      aiEnhanced |-> k.aiEnhanced, whileRunning |-> r] : k \in SignalKinds, r \in BOOLEAN}

----------------------------------------------------------------------------
(* AIModelInterface: the request queue *)

Prompts == {"p1", "p2"}

InitAIModel ==
    aiModel = [isInitialized |-> FALSE, requestQueue |-> <<>>, isProcessing |-> FALSE,
               inFlight |-> {},    \* the prompts whose executeRequest is awaited
               cache |-> {}]

\* the while loop of processQueue, from its test to the next await
aiQueueLoop(ai) ==
    IF ai.requestQueue = <<>>
    THEN [ai EXCEPT !.isProcessing = FALSE]
    ELSE [ai EXCEPT !.inFlight = @ \cup {Head(ai.requestQueue)}, !.requestQueue = Tail(@)]

processQueue(ai) ==
    IF ai.isProcessing \/ ai.requestQueue = <<>>
    THEN ai
    ELSE aiQueueLoop([ai EXCEPT !.isProcessing = TRUE])

\* generateCompletion(prompt); fresh: a cached response is younger than 5 minutes
GenerateCompletion(prompt, fresh) ==
    /\ aiModel' = IF ~aiModel.isInitialized
                  THEN aiModel      \* throws 'AI Model Interface not initialized'
                  ELSE IF prompt \in aiModel.cache /\ fresh
                  THEN aiModel
                  ELSE processQueue([aiModel EXCEPT !.requestQueue = Append(@, prompt)])
    /\ UNCHANGED <<riskVars, signals, engineConfig, engine, controller, brokerOrders, events>>

\* executeRequest settles for the request in flight.  No state that follows the
\* construction enables this step: isInitialized stays false, since initialize
\* sets it after testConnection, which calls generateCompletion.
AIRequestSettles(prompt, succeeded) ==
    /\ prompt \in aiModel.inFlight
    /\ aiModel' = aiQueueLoop([aiModel EXCEPT
                                  !.inFlight = @ \ {prompt},
                                  !.cache = IF succeeded THEN @ \cup {prompt} ELSE @])
    /\ UNCHANGED <<riskVars, signals, engineConfig, engine, controller, brokerOrders, events>>

----------------------------------------------------------------------------
(* SignalAnalyzer: strings                                                  *)
(* A JavaScript string is held as the sequence of its characters; null and  *)
(* '' are both <<>> where the code tests the value with && or ! only.        *)

\* SignalAnalyzer.config.signalKeywords
signalKeywords ==
    << <<"c", "a", "l", "l">>,
       <<"p", "u", "t">>,
       <<"b", "u", "y">>,
       <<"s", "e", "l", "l">>,
       <<"e", "n", "t", "r", "y">>,
       <<"t", "r", "a", "d", "e">>,
       <<"u", "p">>,
       <<"d", "o", "w", "n">>,
       <<"h", "i", "g", "h">>,
       <<"l", "o", "w">>,
       <<"s", "t", "r", "i", "k", "e">> >>

\* SignalAnalyzer.config.timeframes
timeframes ==
    << <<"1", "m">>,
       <<"5", "m">>,
       <<"1", "5", "m">>,
       <<"3", "0", "m">>,
       <<"1", "h">>,
       <<"4", "h">>,
       <<"1", "d">> >>

\* SignalAnalyzer.config.assets
assets ==
    << <<"E", "U", "R", "/", "U", "S", "D">>,
       <<"G", "B", "P", "/", "U", "S", "D">>,
       <<"U", "S", "D", "/", "J", "P", "Y">>,
       <<"U", "S", "D", "/", "C", "H", "F">>,
       <<"B", "T", "C", "/", "U", "S", "D">>,
       <<"E", "T", "H", "/", "U", "S", "D">>,
       <<"L", "T", "C", "/", "U", "S", "D">>,
       <<"X", "R", "P", "/", "U", "S", "D">> >>

\* SignalAnalyzer.config.brokers
brokers ==
    << <<"p", "o", "c", "k", "e", "t", "_", "o", "p", "t", "i", "o", "n">>,
       <<"q", "u", "o", "t", "e", "x">>,
       <<"b", "i", "n", "o", "m", "o">>,
       <<"i", "q", "_", "o", "p", "t", "i", "o", "n">> >>

\* "EUR/USD CALL 5 minutes - 85% confidence"
TextSpecExample == <<"E", "U", "R", "/", "U", "S", "D", " ", "C", "A", "L", "L", " ", "5", " ", "m", "i", "n", "u", "t", "e", "s", " ", "-", " ", "8", "5", "%", " ", "c", "o", "n", "f", "i", "d", "e", "n", "c", "e">>

\* "put  gbp/usd 1h!"
TextShortPut == <<"p", "u", "t", " ", " ", "g", "b", "p", "/", "u", "s", "d", " ", "1", "h", "!">>

\* "Good morning everyone"
TextNoKeywords == <<"G", "o", "o", "d", " ", "m", "o", "r", "n", "i", "n", "g", " ", "e", "v", "e", "r", "y", "o", "n", "e">>

\* "we x0 x1 x2 x3 x4 x5 x6 x7 x8 x9 x0 x1 x ... 6 x7 x8 sell"
TextLong ==
    << "w", "e", " ", "x", "0", " ", "x", "1", " ", "x", "2", " ", "x", "3",
       " ", "x", "4", " ", "x", "5", " ", "x", "6", " ", "x", "7", " ", "x",
       "8", " ", "x", "9", " ", "x", "0", " ", "x", "1", " ", "x", "2", " ",
       "x", "3", " ", "x", "4", " ", "x", "5", " ", "x", "6", " ", "x", "7",
       " ", "x", "8", " ", "x", "9", " ", "x", "0", " ", "x", "1", " ", "x",
       "2", " ", "x", "3", " ", "x", "4", " ", "x", "5", " ", "x", "6", " ",
       "x", "7", " ", "x", "8", " ", "s", "e", "l", "l" >>

\* String.prototype.charCodeAt, for the characters of the model
charCodeAt ==
    " " :> 32 @@ "!" :> 33 @@ "%" :> 37 @@ "-" :> 45 @@ "/" :> 47 @@
    "0" :> 48 @@ "1" :> 49 @@ "2" :> 50 @@ "3" :> 51 @@ "4" :> 52 @@
    "5" :> 53 @@ "6" :> 54 @@ "7" :> 55 @@ "8" :> 56 @@ "9" :> 57 @@
    "A" :> 65 @@ "B" :> 66 @@ "C" :> 67 @@ "D" :> 68 @@ "E" :> 69 @@
    "F" :> 70 @@ "G" :> 71 @@ "H" :> 72 @@ "I" :> 73 @@ "J" :> 74 @@
    "K" :> 75 @@ "L" :> 76 @@ "M" :> 77 @@ "N" :> 78 @@ "O" :> 79 @@
    "P" :> 80 @@ "Q" :> 81 @@ "R" :> 82 @@ "S" :> 83 @@ "T" :> 84 @@
    "U" :> 85 @@ "V" :> 86 @@ "W" :> 87 @@ "X" :> 88 @@ "Y" :> 89 @@
    "Z" :> 90 @@ "_" :> 95 @@ "a" :> 97 @@ "b" :> 98 @@ "c" :> 99 @@
    "d" :> 100 @@ "e" :> 101 @@ "f" :> 102 @@ "g" :> 103 @@ "h" :> 104 @@
    "i" :> 105 @@ "j" :> 106 @@ "k" :> 107 @@ "l" :> 108 @@ "m" :> 109 @@
    "n" :> 110 @@ "o" :> 111 @@ "p" :> 112 @@ "q" :> 113 @@ "r" :> 114 @@
    "s" :> 115 @@ "t" :> 116 @@ "u" :> 117 @@ "v" :> 118 @@ "w" :> 119 @@
    "x" :> 120 @@ "y" :> 121 @@ "z" :> 122

\* String.prototype.toLowerCase, for the letters of the model
upperCaseLetters ==
    <<"A", "B", "C", "D", "E", "F", "G", "H", "I", "J", "K", "L", "M",
      "N", "O", "P", "Q", "R", "S", "T", "U", "V", "W", "X", "Y", "Z">>
lowerCaseLetters ==
    <<"a", "b", "c", "d", "e", "f", "g", "h", "i", "j", "k", "l", "m",
      "n", "o", "p", "q", "r", "s", "t", "u", "v", "w", "x", "y", "z">>

toLowerCaseChar(c) ==
    IF \E i \in 1..26 : upperCaseLetters[i] = c
    THEN lowerCaseLetters[CHOOSE i \in 1..26 : upperCaseLetters[i] = c]
    ELSE c

toLowerCase(text) == [i \in 1..Len(text) |-> toLowerCaseChar(text[i])]

Digits == {"0", "1", "2", "3", "4", "5", "6", "7", "8", "9"}

\* \s of the regular expressions, for the characters of the model
Whitespace == {" "}

\* [\w\s\-\.\:\(\)\/\%\$] : the characters that preprocessSignal keeps
KeptCharacters ==
    Range(upperCaseLetters) \cup Range(lowerCaseLetters) \cup Digits \cup Whitespace
        \cup {"_", "-", ".", ":", "(", ")", "/", "%", "$"}

\* String.prototype.includes
includes(text, part) ==
    \E i \in 0..(Len(text) - Len(part)) : SubSeq(text, i + 1, i + Len(part)) = part

\* text.replace(/\s+/g, ' ') on the characters lo..hi of text: a run of
\* whitespace leaves one space (the recursion halves the range)
RECURSIVE collapseRange(_, _, _)
collapseRange(text, lo, hi) ==
    IF lo > hi THEN <<>>
    ELSE IF lo = hi
    THEN IF text[lo] \notin Whitespace THEN <<text[lo]>>
         ELSE IF lo > 1 /\ text[lo - 1] \in Whitespace THEN <<>>
         ELSE <<" ">>
    ELSE LET mid == (lo + hi) \div 2
         IN  collapseRange(text, lo, mid) \o collapseRange(text, mid + 1, hi)

collapseWhitespace(text) == collapseRange(text, 1, Len(text))

\* String.prototype.trim
trim(text) ==
    LET inner == {i \in 1..Len(text) : text[i] \notin Whitespace}
    IN  IF inner = {} THEN <<>>
        ELSE SubSeq(text, CHOOSE i \in inner : \A j \in inner : i <= j,
                          CHOOSE i \in inner : \A j \in inner : i >= j)

\* text.replace(/[^\w\s\-\.\:\(\)\/\%\$\€\£\¥]/g, ' ')
replaceOtherCharacters(text) ==
    [i \in 1..Len(text) |-> IF text[i] \in KeptCharacters THEN text[i] ELSE " "]

\* the fields of preprocessSignal's result that the analysis reads
preprocessSignal(signal) ==
    LET cleanedText == replaceOtherCharacters(trim(collapseWhitespace(signal.text)))
    IN  [originalText |-> signal.text,
         cleanedText |-> cleanedText,
         lowerText |-> toLowerCase(cleanedText)]

\* text.split(' ').length
splitLength(text) == Cardinality({i \in 1..Len(text) : text[i] = " "}) + 1

\* hashString: hash = ((hash << 5) - hash) + char; hash = hash & hash, which is
\* 31 * hash + char in 32 bits.  The 32 bits are held as two halves of 16 bits.
HalfWord == 65536

\* the loop of hashString over the characters lo..hi of str, from hash (the
\* recursion halves the range, and the hash of the first half is computed before
\* the second half is entered)
RECURSIVE hashRange(_, _, _, _)
hashRange(str, lo, hi, hash) ==
    IF lo > hi THEN hash
    ELSE IF lo = hi
    THEN LET low == 31 * hash.low + charCodeAt[str[lo]]
             high == 31 * hash.high + (low \div HalfWord)
         IN  [high |-> high % HalfWord, low |-> low % HalfWord]
    ELSE LET mid == (lo + hi) \div 2
             first == hashRange(str, lo, mid, hash)
         IN  IF first.low < HalfWord THEN hashRange(str, mid + 1, hi, first) ELSE first

hashString(str) == hashRange(str, 1, Len(str), [high |-> 0, low |-> 0])

\* generateCacheKey: the hash of `${signal.text}_${signal.channelId}_${signal.timestamp}`
generateCacheKey(signal) ==
    hashString(signal.text \o <<"_">> \o signal.channelId \o <<"_">> \o signal.timestamp)

----------------------------------------------------------------------------
(* SignalAnalyzer: parameter extraction *)

\* SignalAnalyzer.config: the default confidenceThreshold, and a
\* minHistoricalSignals (default 10) that the analyses of the model reach
AnalyzerConfig == [confidenceThreshold |-> 70, minHistoricalSignals |-> 2]

\* a JSON value read as a number: null (or missing), a number, or another type
Null == [type |-> "null", num |-> 0]
Number(n) == [type |-> "number", num |-> n]
NotANumber == [type |-> "string", num |-> 0]

\* what the fallback extractor returns for a text without keyword
NoSignalParameters ==
    [isSignal |-> FALSE, action |-> "", asset |-> <<>>, timeframe |-> <<>>,
     expiration |-> Null, confidence |-> 0, broker |-> <<>>,
     reasoning |-> "No signal keywords detected"]

\* validateSignalParameters keeping action, asset, timeframe, expiration and
\* confidence of a message that is not a signal
validateSignalParameters_KeepAll(params) ==
    [isSignal |-> params.isSignal,
     action |-> IF params.action \in {"CALL", "PUT"} THEN params.action ELSE "",
     asset |-> IF params.asset \in Range(assets) THEN params.asset ELSE <<>>,
     timeframe |-> IF params.timeframe \in Range(timeframes) THEN params.timeframe ELSE <<>>,
     expiration |-> IF params.expiration.type = "number" /\ params.expiration.num # 0
                    THEN params.expiration ELSE Null,
     confidence |-> IF params.confidence.type = "number" /\ params.confidence.num # 0
                    THEN Max(0, Min(100, params.confidence.num)) ELSE 0,
     broker |-> IF params.broker \in Range(brokers) THEN params.broker ELSE <<>>,
     reasoning |-> params.reasoning]

validateSignalParameters(params) ==
    LET validated ==
            [isSignal |-> params.isSignal,
             action |-> IF params.action \in {"CALL", "PUT"} THEN params.action ELSE "",
             asset |-> IF params.asset \in Range(assets) THEN params.asset ELSE <<>>,
             timeframe |-> IF params.timeframe \in Range(timeframes)
                           THEN params.timeframe ELSE <<>>,
             expiration |-> IF params.expiration.type = "number" /\ params.expiration.num # 0
                            THEN params.expiration ELSE Null,
             confidence |-> IF params.confidence.type = "number" /\ params.confidence.num # 0
                            THEN Max(0, Min(100, params.confidence.num)) ELSE 0,
             broker |-> IF params.broker \in Range(brokers) THEN params.broker ELSE <<>>,
             reasoning |-> params.reasoning]
    IN  IF ~validated.isSignal
        THEN [validated EXCEPT !.action = "", !.asset = <<>>, !.timeframe = <<>>,
                               !.expiration = Null, !.confidence = 0]
        ELSE validated

\* the first element of a configured list that the text includes (after
\* lower-casing it when lower is TRUE), or <<>>
RECURSIVE firstIncluded(_, _, _)
firstIncluded(text, supported, lower) ==
    IF supported = <<>> THEN <<>>
    ELSE IF includes(text, IF lower THEN toLowerCase(Head(supported)) ELSE Head(supported))
    THEN Head(supported)
    ELSE firstIncluded(text, Tail(supported), lower)

\* the last index of the run of digits that starts at i
RECURSIVE digitRunEnd(_, _)
digitRunEnd(text, i) ==
    IF i < Len(text) /\ text[i + 1] \in Digits THEN digitRunEnd(text, i + 1) ELSE i

\* the first index from i on that holds no whitespace
RECURSIVE skipWhitespace(_, _)
skipWhitespace(text, i) ==
    IF i <= Len(text) /\ text[i] \in Whitespace THEN skipWhitespace(text, i + 1) ELSE i

\* /(\d+)\s*(seconds?|secs?|s|minutes?|mins?|m|hours?|hrs?|h)/ matches from i:
\* every alternative of the unit begins with s, m or h, and s, m and h are
\* alternatives themselves
timeMatchesAt(text, i) ==
    /\ text[i] \in Digits
    /\ LET unit == skipWhitespace(text, digitRunEnd(text, i) + 1)
       IN  unit <= Len(text) /\ text[unit] \in {"s", "m", "h"}

digitValue(c) == CHOOSE v \in 0..9 : charCodeAt[c] = charCodeAt["0"] + v

\* parseInt of a run of digits
RECURSIVE parseInt(_)
parseInt(digits) ==
    IF digits = <<>> THEN 0
    ELSE 10 * parseInt(SubSeq(digits, 1, Len(digits) - 1)) + digitValue(digits[Len(digits)])

\* the expiration in seconds that the fallback extractor reads from the text
extractExpiration(text) ==
    IF ~\E i \in 1..Len(text) : timeMatchesAt(text, i) THEN Null
    ELSE LET i == CHOOSE k \in 1..Len(text) :
                    timeMatchesAt(text, k) /\ \A j \in 1..(k - 1) : ~timeMatchesAt(text, j)
             end == digitRunEnd(text, i)
             value == parseInt(SubSeq(text, i, end))
             unit == text[skipWhitespace(text, end + 1)]
         IN  Number(IF unit = "s" THEN value
                    ELSE IF unit = "m" THEN value * 60
                    ELSE value * 3600)

fallbackParameterExtraction(processedSignal) ==
    LET text == processedSignal.lowerText
        isSignal == \E k \in 1..Len(signalKeywords) : includes(text, signalKeywords[k])
    IN  IF ~isSignal THEN NoSignalParameters
        ELSE [isSignal |-> TRUE,
              action |-> IF \/ includes(text, <<"c", "a", "l", "l">>)
                            \/ includes(text, <<"b", "u", "y">>)
                            \/ includes(text, <<"u", "p">>)
                         THEN "CALL"
                         ELSE IF \/ includes(text, <<"p", "u", "t">>)
                                 \/ includes(text, <<"s", "e", "l", "l">>)
                                 \/ includes(text, <<"d", "o", "w", "n">>)
                         THEN "PUT"
                         ELSE "",
              asset |-> firstIncluded(text, assets, TRUE),
              timeframe |-> firstIncluded(text, timeframes, FALSE),
              expiration |-> extractExpiration(text),
              confidence |-> 50,
              broker |-> <<>>,
              reasoning |-> "Fallback parameter extraction due to AI failure"]

\* the signals handed to analyzeSignal: three of one channel, one without channel
AnalyzerSignals ==
    << [channelId |-> <<"c", "h", "1">>, text |-> TextSpecExample,
        timestamp |-> <<"1", "0", "0", "0">>],
       [channelId |-> <<"c", "h", "1">>, text |-> TextShortPut,
        timestamp |-> <<"2", "0", "0", "0">>],
       [channelId |-> <<"c", "h", "1">>, text |-> TextLong,
        timestamp |-> <<"3", "0", "0", "0">>],
       [channelId |-> <<>>, text |-> TextNoKeywords,
        timestamp |-> <<"4", "0", "0", "0">>] >>

AnalyzerChannels == {AnalyzerSignals[s].channelId : s \in DOMAIN AnalyzerSignals} \ {<<>>}

\* preprocessSignal, generateCacheKey and fallbackParameterExtraction of each
\* signal of the model (they depend on the signal alone)
ProcessedSignals ==
    [s \in DOMAIN AnalyzerSignals |-> preprocessSignal(AnalyzerSignals[s])]

CacheKeys == [s \in DOMAIN AnalyzerSignals |-> generateCacheKey(AnalyzerSignals[s])]

FallbackParameters ==
    [s \in DOMAIN AnalyzerSignals |-> fallbackParameterExtraction(ProcessedSignals[s])]

\* what aiModel.generateCompletion gives and JSON.parse makes of it: the call is
\* rejected, the response has no content, the content is no JSON, the JSON is
\* null, or the JSON is an object with the fields in params
ModelFailures == {"rejected", "empty", "unparsable", "null"}

NoModelOutput ==
    [isSignal |-> FALSE, action |-> "", asset |-> <<>>, timeframe |-> <<>>,
     expiration |-> Null, confidence |-> Null, broker |-> <<>>, reasoning |-> ""]

Failure(kind) == [kind |-> kind, params |-> NoModelOutput]
Object(params) == [kind |-> "object", params |-> params]

\* extractSignalParameters of signal s once aiModel.generateCompletion has
\* settled; a TypeError of validateSignalParameters (params null) is caught
\* like the other errors
extractSignalParameters(s, outcome) ==
    IF outcome.kind \in ModelFailures
    THEN FallbackParameters[s]
    ELSE validateSignalParameters(outcome.params)

----------------------------------------------------------------------------
(* SignalAnalyzer: confidence *)

\* calculateParameterCompleteness in thirtieths: (requiredCount / 2) * 0.6 is
\* 9 thirtieths per required parameter, (optionalCount / 3) * 0.4 is 4 per
\* optional parameter
CompletenessScale == 30

requiredCount(params) ==
    (IF params.action # "" THEN 1 ELSE 0) + (IF params.asset # <<>> THEN 1 ELSE 0)

optionalCount(params) ==
    (IF params.timeframe # <<>> THEN 1 ELSE 0)
        + (IF params.expiration # Null THEN 1 ELSE 0)
        + (IF params.broker # <<>> THEN 1 ELSE 0)

\* calculateParameterCompleteness giving the weight 0.4 to the share of the
\* optional parameters that are missing
calculateParameterCompleteness_MissingOptional(params) ==
    9 * requiredCount(params) + 4 * (3 - optionalCount(params))

calculateParameterCompleteness(params) ==
    9 * requiredCount(params) + 4 * optionalCount(params)

NoHistory == [exists |-> FALSE, signalsCount |-> 0, successfulSignals |-> 0]

\* getHistoricalPerformanceBonus with the bonus of a channel that has reached
\* minHistoricalSignals withheld as well (<= for <)
getHistoricalPerformanceBonus_Late(channelId, historicalData, cfg) ==
    IF channelId = <<>> THEN [num |-> 0, den |-> 1]
    ELSE LET historical == historicalData[channelId]
         IN  IF ~historical.exists \/ historical.signalsCount <= cfg.minHistoricalSignals
             THEN [num |-> 0, den |-> 1]
             ELSE [num |-> 20 * historical.successfulSignals - 10 * historical.signalsCount,
                   den |-> historical.signalsCount]

\* the bonus as the fraction num / den: (winRate - 0.5) * 20 is
\* (20 * successfulSignals - 10 * signalsCount) / signalsCount
getHistoricalPerformanceBonus(channelId, historicalData, cfg) ==
    IF channelId = <<>> THEN [num |-> 0, den |-> 1]
    ELSE LET historical == historicalData[channelId]
         IN  IF ~historical.exists \/ historical.signalsCount < cfg.minHistoricalSignals
             THEN [num |-> 0, den |-> 1]
             ELSE [num |-> 20 * historical.successfulSignals - 10 * historical.signalsCount,
                   den |-> historical.signalsCount]

calculateSignalClarity(text) ==
    LET words == splitLength(text)
    IN  IF words < 10 THEN 10
        ELSE IF words < 20 THEN 5
        ELSE IF words < 30 THEN 0
        ELSE -5

\* the sum of calculateConfidence before it is bounded, as the fraction num / den
confidenceSum(signal, signalParams, historicalData, cfg) ==
    LET base == IF signalParams.confidence # 0 THEN signalParams.confidence ELSE 50
        completeness == calculateParameterCompleteness(signalParams)
        historicalBonus == getHistoricalPerformanceBonus(signal.channelId, historicalData, cfg)
        clarityBonus == calculateSignalClarity(signal.text)
        den == CompletenessScale * historicalBonus.den
    IN  [num |-> (base + clarityBonus) * den
                    + completeness * 20 * historicalBonus.den
                    + historicalBonus.num * CompletenessScale,
         den |-> den]

\* calculateConfidence without Math.max(0, Math.min(100, confidence))
calculateConfidence_Unbounded(signal, signalParams, historicalData, cfg) ==
    IF ~signalParams.isSignal THEN 0
    ELSE LET sum == confidenceSum(signal, signalParams, historicalData, cfg)
         IN  RoundDiv(sum.num, sum.den)

calculateConfidence(signal, signalParams, historicalData, cfg) ==
    IF ~signalParams.isSignal THEN 0
    ELSE LET sum == confidenceSum(signal, signalParams, historicalData, cfg)
         IN  RoundDiv(Max(0, Min(100 * sum.den, sum.num)), sum.den)

storeHistoricalSignal(historicalData, signal, confidence, cfg) ==
    IF signal.channelId = <<>> THEN historicalData
    ELSE LET historical == historicalData[signal.channelId]
         IN  [historicalData EXCEPT ![signal.channelId] =
                [exists |-> TRUE,
                 signalsCount |-> historical.signalsCount + 1,
                 successfulSignals |-> historical.successfulSignals
                        + (IF confidence >= cfg.confidenceThreshold THEN 1 ELSE 0)]]

----------------------------------------------------------------------------
(* SignalAnalyzer: state and operations *)

\* the objects that JSON.parse makes of the model's answers
ModelOutputs ==
    { [isSignal |-> TRUE, action |-> "CALL", asset |-> assets[1], timeframe |-> timeframes[2],
       expiration |-> Number(300), confidence |-> Number(95), broker |-> brokers[1],
       reasoning |-> "model"],
      [isSignal |-> FALSE, action |-> "PUT", asset |-> assets[2], timeframe |-> timeframes[5],
       expiration |-> Number(3600), confidence |-> Number(80), broker |-> brokers[2],
       reasoning |-> "model"],
      [isSignal |-> TRUE, action |-> "BUY", asset |-> <<"X", "A", "U">>, timeframe |-> <<>>,
       expiration |-> NotANumber, confidence |-> Number(150), broker |-> <<>>,
       reasoning |-> "model"],
      [isSignal |-> TRUE, action |-> "", asset |-> <<>>, timeframe |-> <<>>,
       expiration |-> Null, confidence |-> Number(1), broker |-> <<>>,
       reasoning |-> ""] }

ModelOutcomes == {Failure(kind) : kind \in ModelFailures} \cup {Object(p) : p \in ModelOutputs}

\* the cache window of analyzeSignal in milliseconds
CacheWindow == 300000

AnalysisIds == 1..MaxAnalyses

\* an analysis object is held as its id: the number of the call that made it
NoAnalysis == 0

NoLatest ==
    [call |-> 0, outcome |-> Failure("none"), threw |-> FALSE,
     signalParams |-> NoSignalParameters, historical |-> NoHistory,
     historicalBonus |-> [num |-> 0, den |-> 1], confidence |-> 0]

InitSignalAnalyzer ==
    /\ analyzer = [aiModel |-> FALSE,
                   historicalData |-> [c \in AnalyzerChannels |-> NoHistory],
                   analysisCache |-> {}]
    /\ calls = <<>>
    /\ latest = NoLatest
    /\ now = 0

\* setAIModel
SetAIModel ==
    /\ ~analyzer.aiModel
    /\ analyzer' = [analyzer EXCEPT !.aiModel = TRUE]
    /\ UNCHANGED <<calls, latest, now>>

\* Date.now() advances by the length of the cache window
TimePasses ==
    /\ now < MaxClock * CacheWindow
    /\ now' = now + CacheWindow
    /\ UNCHANGED <<analyzer, calls, latest>>

\* the cache entry that analyzeSignal returns for the key, if any
cachedAnalysis(key) ==
    {entry \in analyzer.analysisCache : entry.key = key /\ now - entry.timestamp < CacheWindow}

\* analyzeSignal up to its first await that leaves the event loop: a cache
\* hit, the error of extractSignalParameters without model, or the call of
\* aiModel.generateCompletion
AnalyzeSignal(s) ==
    LET signal == AnalyzerSignals[s]
        cached == cachedAnalysis(CacheKeys[s])
        call == [signal |-> s, submitted |-> now, invokedModel |-> FALSE,
                 phase |-> "awaiting", analysis |-> NoAnalysis]
    IN  /\ Len(calls) < MaxAnalyses
        /\ IF cached # {}
           THEN /\ calls' = Append(calls, [call EXCEPT !.phase = "returned",
                                    !.analysis = (CHOOSE entry \in cached : TRUE).analysis])
                /\ UNCHANGED latest
           ELSE IF ~analyzer.aiModel
           THEN /\ calls' = Append(calls, [call EXCEPT !.phase = "threw"])
                /\ latest' = [NoLatest EXCEPT !.call = Len(calls) + 1, !.threw = TRUE,
                                              !.outcome = Failure("noModel")]
           ELSE /\ calls' = Append(calls, [call EXCEPT !.invokedModel = TRUE])
                /\ UNCHANGED latest
        /\ UNCHANGED <<analyzer, now>>

\* analyzeSignal from the settling of aiModel.generateCompletion to its return
ModelSettles(c, outcome) ==
    LET signal == AnalyzerSignals[calls[c].signal]
        signalParams == extractSignalParameters(calls[c].signal, outcome)
        confidence == calculateConfidence(signal, signalParams, analyzer.historicalData,
                                          AnalyzerConfig)
        key == CacheKeys[calls[c].signal]
    IN  /\ c \in 1..Len(calls)
        /\ calls[c].phase = "awaiting"
        /\ analyzer' = [analyzer EXCEPT
                !.analysisCache = {entry \in @ : entry.key # key}
                    \cup {[key |-> key, analysis |-> c, timestamp |-> now]},
                !.historicalData = storeHistoricalSignal(@, signal, confidence, AnalyzerConfig)]
        /\ calls' = [calls EXCEPT ![c].phase = "returned", ![c].analysis = c]
        /\ latest' = [call |-> c, outcome |-> outcome, threw |-> FALSE,
                      signalParams |-> signalParams,
                      historical |-> IF signal.channelId = <<>> THEN NoHistory
                                     ELSE analyzer.historicalData[signal.channelId],
                      historicalBonus |-> IF signalParams.isSignal
                            THEN getHistoricalPerformanceBonus(signal.channelId,
                                        analyzer.historicalData, AnalyzerConfig)
                            ELSE [num |-> 0, den |-> 1],
                      confidence |-> confidence]
        /\ UNCHANGED now

NextAnalyzer ==
    \/ SetAIModel /\ UNCHANGED <<riskVars, pipeVars, sizing, validationCall, moreVars>>
    \/ TimePasses /\ UNCHANGED <<riskVars, pipeVars, sizing, validationCall, moreVars>>
    \/ \E s \in DOMAIN AnalyzerSignals :
            AnalyzeSignal(s) /\ UNCHANGED <<riskVars, pipeVars, sizing, validationCall, moreVars>>
    \/ \E c \in AnalysisIds, outcome \in ModelOutcomes :
            ModelSettles(c, outcome) /\ UNCHANGED <<riskVars, pipeVars, sizing, validationCall, moreVars>>

----------------------------------------------------------------------------
(* SignalAnalyzer: validateSignalParameters and calculateParameterCompleteness
   on their own *)

\* the objects handed to validateSignalParameters
RawParameters ==
    [isSignal : BOOLEAN,
     action : {"CALL", "BUY", ""},
     asset : {assets[1], <<"X", "A", "U">>, <<>>},
     timeframe : {timeframes[2], <<>>},
     expiration : {Null, Number(300), NotANumber},
     confidence : {Null, Number(-5), Number(80), Number(150), NotANumber},
     broker : {brokers[2], <<"e", "t", "o", "r", "o">>, <<>>},
     reasoning : {"model"}]

NoValidation ==
    [called |-> FALSE, params |-> NoModelOutput, validated |-> NoSignalParameters,
     completeness |-> 0]

ValidateSignalParameters(params) ==
    LET validated == validateSignalParameters(params)
    IN  /\ ~validationCall.called
        /\ validationCall' = [called |-> TRUE, params |-> params, validated |-> validated,
                              completeness |-> calculateParameterCompleteness(validated)]
        /\ UNCHANGED <<riskVars, pipeVars, sizing, analyzerVars, moreVars>>

\* the caller has taken the value that validateSignalParameters returned
ValidationReturned ==
    /\ validationCall.called
    /\ validationCall' = NoValidation
    /\ UNCHANGED <<riskVars, pipeVars, sizing, analyzerVars, moreVars>>

NextValidation ==
    \/ \E params \in RawParameters : ValidateSignalParameters(params)
    \/ ValidationReturned

----------------------------------------------------------------------------
(* The original bot (web_accessible_resources): martingale follow-up deals  *)
(* Amounts are in cents, multipliers of martinSteps in tenths.  A text      *)
(* frame of the WebSocket that names an action and the binary frame that    *)
(* carries its data are one step, and a 'successcloseOrder' frame carries   *)
(* one deal.  The field losses of a deal is history: the number of          *)
(* consecutive losing deals that led to it.                                 *)

MultiplierScale == 10

\* settings.martinSteps: the default (nine steps of 2) shortened, and tables
\* that a 'setState' message sets
MartinTables == {<<20, 20>>, <<10, 20, 20>>, <<15, 15>>}

\* the amount field of the page, which the page puts into every order it sends
BaseAmount == 1000

RobotAssets == {"EURUSD", "EURUSD_otc"}

\* what the strategies of the model return: the opposite of the page's action
StrategyDirections == {"down"}

\* the asset and the action that the page puts into the orders it sends
PageOrder == [asset |-> "EURUSD", action |-> "call"]

\* the profit that the broker reports for a closed deal, in cents
DealProfits == {-1000, 0, 800}

\* Math.floor(s * multiplier * 100) / 100
floorStep(s, multiplier) == (s * multiplier) \div MultiplierScale

RECURSIVE martingaleWalk(_, _, _, _)
martingaleWalk(martinSteps, e, s, t) ==
    IF t > Len(martinSteps) THEN 2 * e
    ELSE IF e = s THEN floorStep(s, martinSteps[t])
    ELSE martingaleWalk(martinSteps, e, floorStep(s, martinSteps[t]), t + 1)

\* getNextMartingaleStep(t, e) with t = startSum (false is 0) and e = the
\* amount of the closed deal
getNextMartingaleStep(martinSteps, startSum, amount) ==
    martingaleWalk(martinSteps, amount, startSum, 1)

\* deal(t, e, s): the entry pushed to futureDeals; e is "up" or "down", a
\* missing s is 0
deal(pair, e, sum, losses) ==
    [pair |-> pair, dur |-> IF e = "up" THEN "call" ELSE "put", sum |-> sum,
     losses |-> losses]

\* t.command of a deal as the broker reports it: 0 for a call, 1 for a put
command(order) == IF order.action = "call" THEN 0 ELSE 1

\* the follow-up deals of a closed robot deal that escalate after every outcome
\* but a breakeven
followUpDeals_AfterWin(settings, startSum, t, profit) ==
    LET e == IF command(t) = 0 THEN "up" ELSE "down"
    IN  IF ~((settings.strategy = "martin" \/ settings.useMartin) /\ settings.started)
        THEN <<>>
        ELSE IF profit # 0
        THEN <<deal(t.asset, e, getNextMartingaleStep(settings.martinSteps, startSum, t.amount),
                    t.losses + 1)>>
        ELSE <<deal(t.asset, e, t.amount, t.losses)>>

\* the follow-up deals of a closed robot deal that escalate after a breakeven too
followUpDeals_BreakevenEscalates(settings, startSum, t, profit) ==
    LET e == IF command(t) = 0 THEN "up" ELSE "down"
    IN  IF ~((settings.strategy = "martin" \/ settings.useMartin) /\ settings.started)
        THEN <<>>
        ELSE IF profit <= 0
        THEN <<deal(t.asset, e, getNextMartingaleStep(settings.martinSteps, startSum, t.amount),
                    t.losses + 1)>>
        ELSE <<>>

\* update(), 'successcloseOrder': the deals that the close of robot deal t
\* with this profit pushes to futureDeals
followUpDeals(settings, startSum, t, profit) ==
    LET e == IF command(t) = 0 THEN "up" ELSE "down"
    IN  IF ~((settings.strategy = "martin" \/ settings.useMartin) /\ settings.started)
        THEN <<>>
        ELSE IF profit < 0
        THEN <<deal(t.asset, e, getNextMartingaleStep(settings.martinSteps, startSum, t.amount),
                    t.losses + 1)>>
        ELSE IF profit = 0
        THEN <<deal(t.asset, e, t.amount, t.losses)>>
        ELSE <<>>

DealsLimit == 10

InitRobot ==
    /\ robot = [settings |-> [strategy |-> "signals", started |-> FALSE, useMartin |-> FALSE,
                              martinSteps |-> <<20, 20, 20>>],
                startSum |-> 0, openedDials |-> 0, futureDeals |-> <<>>, opened |-> {}]
    /\ orders = <<>>

\* the 'setState' message of the settings page, before the bot has traded
RobotSetState(useMartin, martinSteps) ==
    /\ orders = <<>>
    /\ ~robot.settings.started
    /\ robot' = [robot EXCEPT !.settings.useMartin = useMartin,
                              !.settings.martinSteps = martinSteps]
    /\ UNCHANGED orders

\* the 'start_stop' message (a demo account, or a confirmed user)
RobotStartStop ==
    /\ robot' = [robot EXCEPT !.settings.started = ~@, !.futureDeals = <<>>]
    /\ UNCHANGED orders

\* checkDial: a strategy finds a deal on pair e and calls deal(e, dir)
RobotCheckDial(pair, dir) ==
    /\ robot.settings.started
    /\ robot.openedDials + Len(robot.futureDeals) < DealsLimit
    /\ Len(robot.futureDeals) + Len(orders) < MaxDeals
    /\ robot' = [robot EXCEPT !.futureDeals = Append(@, deal(pair, dir, 0, 0))]
    /\ UNCHANGED orders

\* i.send: the page sends its order, of BaseAmount
RobotSend ==
    LET overrides == robot.settings.started
                        /\ (Len(robot.futureDeals) > 0 \/ robot.startSum = 0)
        a == robot.futureDeals[Len(robot.futureDeals)]
        sent == [asset |-> PageOrder.asset, action |-> PageOrder.action, amount |-> BaseAmount, losses |-> 0,
                 state |-> "sent", profit |-> 0, robot |-> FALSE]
    IN  /\ Len(orders) < MaxDeals
        /\ IF overrides /\ Len(robot.futureDeals) > 0
           THEN /\ robot' = [robot EXCEPT !.startSum = BaseAmount,
                                !.futureDeals = SubSeq(@, 1, Len(@) - 1),
                                !.openedDials = @ + 1]
                /\ orders' = Append(orders,
                        [sent EXCEPT !.asset = a.pair, !.action = a.dur,
                                     !.amount = IF a.sum # 0 THEN a.sum ELSE BaseAmount,
                                     !.losses = a.losses, !.robot = TRUE])
           ELSE IF overrides
           THEN \* pop() of the empty futureDeals gives undefined: a.pair throws
                \* after startSum is set, and the catch sends the order as it is
                /\ robot' = [robot EXCEPT !.startSum = BaseAmount]
                /\ orders' = Append(orders, sent)
           ELSE /\ orders' = Append(orders, sent)
                /\ UNCHANGED robot

\* 'successopenOrder' for order id
RobotOrderOpened(id) ==
    /\ id \in DOMAIN orders
    /\ orders[id].state = "sent"
    /\ orders' = [orders EXCEPT ![id].state = "open"]
    /\ robot' = IF robot.settings.started
                THEN [robot EXCEPT !.opened = @ \cup {id}]
                ELSE robot

\* 'successcloseOrder' with deal id and its profit
RobotOrderClosed(id, profit) ==
    /\ id \in DOMAIN orders
    /\ orders[id].state = "open"
    /\ orders' = [orders EXCEPT ![id].state = "closed", ![id].profit = profit]
    /\ robot' = IF id \in robot.opened
                THEN [robot EXCEPT
                        !.opened = @ \ {id},
                        !.futureDeals = @ \o followUpDeals(robot.settings, robot.startSum,
                                                           orders[id], profit),
                        !.openedDials = @ - 1]
                ELSE [robot EXCEPT !.openedDials = @ - 1]

besideRobot ==
    <<riskVars, pipeVars, sizing, analyzerVars, validationCall, martingaleCall, telegram,
      request, lateVars>>

NextRobot ==
    \/ \E useMartin \in BOOLEAN, martinSteps \in MartinTables :
            RobotSetState(useMartin, martinSteps) /\ UNCHANGED besideRobot
    \/ RobotStartStop /\ UNCHANGED besideRobot
    \/ \E pair \in RobotAssets, dir \in StrategyDirections :
            RobotCheckDial(pair, dir) /\ UNCHANGED besideRobot
    \/ RobotSend /\ UNCHANGED besideRobot
    \/ \E id \in 1..MaxDeals : RobotOrderOpened(id) /\ UNCHANGED besideRobot
    \/ \E id \in 1..MaxDeals, profit \in DealProfits :
            RobotOrderClosed(id, profit) /\ UNCHANGED besideRobot

----------------------------------------------------------------------------
(* TelegramIntegration: the performance record of a channel                 *)
(* addChannel is held as one step, with a chat that has no recent messages. *)
(* winRate is held as the fraction [num, den] that the code multiplies by   *)
(* 100.                                                                     *)

TelegramChannels == {"ch1", "ch2"}

\* channelInfo.minConfidence || 70
MinConfidences == {70, 80}

\* what the await of analyzeSignal gives: the analysis of the placeholder
\* (confidence 75), or the error of an analysis that fails, which the catch of
\* handleTradingSignal takes
AnalysisResults == {[ok |-> TRUE, confidence |-> 75], [ok |-> FALSE, confidence |-> 0]}

InitTelegram ==
    telegram = [channels |-> <<>>, handling |-> <<>>]

NewChannel(minConfidence) ==
    [settings |-> [minConfidence |-> minConfidence],
     performance |-> [totalSignals |-> 0, successfulSignals |-> 0,
                      winRate |-> [num |-> 0, den |-> 1]]]

TelegramAddChannel(channelId, minConfidence) ==
    /\ channelId \notin DOMAIN telegram.channels
    /\ telegram' = [telegram EXCEPT
                        !.channels = [c \in DOMAIN @ \cup {channelId} |->
                                        IF c = channelId THEN NewChannel(minConfidence)
                                        ELSE @[c]]]

\* handleTradingSignal to its await of analyzeSignal
HandleTradingSignal(channelId) ==
    /\ channelId \in DOMAIN telegram.channels
    /\ telegram.channels[channelId].performance.totalSignals < MaxChannelSignals
    /\ telegram' = [telegram EXCEPT
                        !.channels[channelId].performance.totalSignals = @ + 1,
                        !.handling = Append(@, channelId)]

\* the performance record after the try block of handleTradingSignal
performanceAfter(channel, result) ==
    LET performance == channel.performance
        successfulSignals ==
            IF result.confidence >= channel.settings.minConfidence
            THEN performance.successfulSignals + 1
            ELSE performance.successfulSignals
    IN  IF ~result.ok THEN performance
        ELSE [performance EXCEPT
                !.successfulSignals = successfulSignals,
                !.winRate = [num |-> successfulSignals, den |-> performance.totalSignals]]

\* handleTradingSignal after its await: call h of those in flight resumes
SignalAnalysisSettles(h, result) ==
    /\ h \in DOMAIN telegram.handling
    /\ LET channelId == telegram.handling[h]
       IN  telegram' = [telegram EXCEPT
                !.channels[channelId].performance =
                        performanceAfter(telegram.channels[channelId], result),
                !.handling = SubSeq(@, 1, h - 1) \o SubSeq(@, h + 1, Len(@))]

besideTelegram ==
    <<riskVars, pipeVars, sizing, analyzerVars, validationCall, robotVars, martingaleCall,
      request, lateVars>>

NextTelegram ==
    \/ \E channelId \in TelegramChannels, minConfidence \in MinConfidences :
            TelegramAddChannel(channelId, minConfidence) /\ UNCHANGED besideTelegram
    \/ \E channelId \in TelegramChannels :
            HandleTradingSignal(channelId) /\ UNCHANGED besideTelegram
    \/ \E h \in 1..(2 * MaxChannelSignals), result \in AnalysisResults :
            SignalAnalysisSettles(h, result) /\ UNCHANGED besideTelegram

----------------------------------------------------------------------------
(* TelegramIntegration: addChannel, removeChannel and the polling of updates *)

\* config.maxChannels || 50
DefaultMaxChannels == 50

\* config.maxChannels of the integrations of the model
ChannelLimits == {1, 2}

ChannelIds == {"ch1", "ch2", "ch3"}

\* awaiting: the channels whose addChannel call awaits getChatInfo
InitChannelCalls(maxChannels) ==
    channelCalls = [maxChannels |-> maxChannels, awaiting |-> {}]

\* addChannel(channelId) to its await of getChatInfo; it throws when
\* channels.size has reached maxChannels
AddChannel(channelId) ==
    /\ channelId \notin channelCalls.awaiting
    /\ channelCalls' =
            IF Cardinality(DOMAIN telegram.channels) >= channelCalls.maxChannels
            THEN channelCalls
            ELSE [channelCalls EXCEPT !.awaiting = @ \cup {channelId}]
    /\ UNCHANGED telegram

\* getChatInfo settles: addChannel sets the channel, or throws when the chat
\* was not found
ChatInfoSettles(channelId, found) ==
    /\ channelId \in channelCalls.awaiting
    /\ channelCalls' = [channelCalls EXCEPT !.awaiting = @ \ {channelId}]
    /\ telegram' =
            IF found
            THEN [telegram EXCEPT
                    !.channels = [c \in DOMAIN @ \cup {channelId} |->
                                    IF c = channelId THEN NewChannel(70) ELSE @[c]]]
            ELSE telegram

\* removeChannel(channelId) of a channel that is monitored
RemoveChannel(channelId) ==
    /\ channelId \in DOMAIN telegram.channels
    /\ telegram' = [telegram EXCEPT
                        !.channels = [c \in DOMAIN @ \ {channelId} |-> @[c]]]
    /\ UNCHANGED channelCalls

besideChannels ==
    <<riskVars, pipeVars, sizing, analyzerVars, validationCall, robotVars, martingaleCall,
      request, aiInit, queueCall, polling>>

NextChannels ==
    \/ \E channelId \in ChannelIds : AddChannel(channelId) /\ UNCHANGED besideChannels
    \/ \E channelId \in ChannelIds, found \in BOOLEAN :
            ChatInfoSettles(channelId, found) /\ UNCHANGED besideChannels
    \/ \E channelId \in ChannelIds : RemoveChannel(channelId) /\ UNCHANGED besideChannels

UpdateIds == 1..MaxUpdates

\* polling: whether setInterval runs; available: the latest update_id at the
\* server; calls: the checkForUpdates calls in flight, each with the offset it
\* has asked for and the updates of its response not yet processed;
\* processed: how often processUpdate has run for each update
InitPolling ==
    polling = [lastUpdateId |-> 0, polling |-> FALSE, available |-> 0, ticks |-> 0,
               calls |-> <<>>, processed |-> [u \in UpdateIds |-> 0]]

\* the calls in flight without call c
withoutCall(inFlight, c) ==
    SubSeq(inFlight, 1, c - 1) \o SubSeq(inFlight, c + 1, Len(inFlight))

\* startUpdatePolling
StartUpdatePolling ==
    /\ ~polling.polling
    /\ polling' = [polling EXCEPT !.polling = TRUE]

\* a message or channel post reaches the server
UpdateArrives ==
    /\ polling.available < MaxUpdates
    /\ polling' = [polling EXCEPT !.available = @ + 1]

\* a tick of the interval: checkForUpdates to its await of makeRequest
PollingTick ==
    /\ polling.polling
    /\ polling.ticks < MaxPolls
    /\ polling' = [polling EXCEPT
            !.ticks = @ + 1,
            !.calls = Append(@, [offset |-> polling.lastUpdateId + 1,
                                 phase |-> "requesting", batch |-> <<>>])]

\* the response of getUpdates arrives: the updates from the offset on, or a
\* response that is not ok, which the catch of checkForUpdates logs
ResponseArrives(c, ok) ==
    /\ c \in DOMAIN polling.calls
    /\ polling.calls[c].phase = "requesting"
    /\ LET offset == polling.calls[c].offset
           batch == [i \in 1..(polling.available - offset + 1) |-> offset + i - 1]
       IN  polling' =
                IF ok /\ batch # <<>>
                THEN [polling EXCEPT !.calls[c].phase = "processing", !.calls[c].batch = batch]
                ELSE [polling EXCEPT !.calls = withoutCall(@, c)]

\* one round of the for loop of checkForUpdates: processUpdate(update), then
\* lastUpdateId = update.update_id
UpdateProcessed(c) ==
    /\ c \in DOMAIN polling.calls
    /\ polling.calls[c].phase = "processing"
    /\ LET update == Head(polling.calls[c].batch)
           rest == Tail(polling.calls[c].batch)
       IN  polling' = [polling EXCEPT
                !.processed[update] = @ + 1,
                !.lastUpdateId = update,
                !.calls = IF rest = <<>> THEN withoutCall(@, c)
                          ELSE [@ EXCEPT ![c].batch = rest]]

besidePolling ==
    <<riskVars, pipeVars, sizing, analyzerVars, validationCall, robotVars, martingaleCall,
      telegram, request, aiInit, queueCall, channelCalls>>

NextPolling ==
    \/ StartUpdatePolling /\ UNCHANGED besidePolling
    \/ UpdateArrives /\ UNCHANGED besidePolling
    \/ PollingTick /\ UNCHANGED besidePolling
    \/ \E c \in 1..MaxPolls, ok \in BOOLEAN : ResponseArrives(c, ok) /\ UNCHANGED besidePolling
    \/ \E c \in 1..MaxPolls : UpdateProcessed(c) /\ UNCHANGED besidePolling

----------------------------------------------------------------------------
(* AIModelInterface: executeRequest and its retries *)

\* AIModelInterface.constructor defaults of provider and retryAttempts
DefaultAIConfig == [provider |-> "openai", retryAttempts |-> 3]

\* {...defaults, ...config}: a retryAttempts of 0 in config stays 0
AIConfigs ==
    [provider : {"openai", "anthropic", "local", "gemini"}, retryAttempts : {0, 1, 2, 3}]

\* options.retryAttempt of a call that its caller makes: undefined
Undefined == -1

NoRequest == [phase |-> "idle", retryAttempt |-> Undefined, retries |-> 0]

InitExecuteRequest(aiConfig) ==
    request = [config |-> aiConfig, call |-> NoRequest]

\* executeRequest(prompt, options) to the await of the provider call
ExecuteRequest ==
    /\ request.call.phase = "idle"
    /\ request' = [request EXCEPT !.call.phase = "provider"]

\* the provider call resolves: executeRequest returns the response
ProviderAnswers ==
    /\ request.call.phase = "provider"
    /\ request.config.provider = "openai"
    /\ request' = [request EXCEPT !.call.phase = "returned"]

\* the provider call throws (fetch rejects, the response is not ok, the
\* provider is a placeholder or is not supported): the catch of executeRequest
ProviderFails ==
    /\ request.call.phase = "provider"
    /\ request' =
            IF request.call.retryAttempt # Undefined
                /\ request.call.retryAttempt >= request.config.retryAttempts
            THEN [request EXCEPT !.call.phase = "threw"]
            ELSE [request EXCEPT !.call.phase = "delay"]

\* retryDelay has passed: executeRequest calls itself with retryAttempt + 1
RetryDelayPasses ==
    /\ request.call.phase = "delay"
    /\ request' = [request EXCEPT
            !.call.phase = "provider",
            !.call.retryAttempt =
                (IF request.call.retryAttempt = Undefined THEN 0
                 ELSE request.call.retryAttempt) + 1,
            !.call.retries = @ + 1]

\* the caller has taken the response or the error
RequestSettled ==
    /\ request.call.phase \in {"returned", "threw"}
    /\ request' = [request EXCEPT !.call = NoRequest]

besideRequest ==
    <<riskVars, pipeVars, sizing, analyzerVars, validationCall, robotVars, martingaleCall,
      telegram, lateVars>>

NextRequest ==
    \/ ExecuteRequest /\ UNCHANGED besideRequest
    \/ ProviderAnswers /\ UNCHANGED besideRequest
    \/ ProviderFails /\ UNCHANGED besideRequest
    \/ RetryDelayPasses /\ UNCHANGED besideRequest
    \/ RequestSettled /\ UNCHANGED besideRequest

----------------------------------------------------------------------------
(* AIModelInterface: initialize and testConnection *)

\* AIModelInterface.constructor defaults of the fields that validateConfig reads;
\* apiKey is '' unless the configuration gives one
DefaultInitializeConfig == [provider |-> "openai", apiKey |-> "", apiEndpoint |-> "url"]

\* {...defaults, ...config}
InitializeConfigs ==
    [provider : {"openai", "anthropic", "local", "gemini"}, apiKey : {"", "k"},
     apiEndpoint : {"", "url"}]

supportedProviders == {"openai", "anthropic", "local"}

\* validateConfig does not throw
validConfig(cfg) ==
    /\ cfg.provider # "" /\ cfg.apiKey # "" /\ cfg.apiEndpoint # ""
    /\ cfg.provider \in supportedProviders

\* generateCompletion(prompt) as a caller sees it: "threw" until isInitialized
\* is true, "queued" afterwards (or answered from the cache)
generateCompletion(ai) == IF ~ai.isInitialized THEN "threw" ELSE "queued"

\* initialize() to its first await: validateConfig, then testConnection, which
\* awaits generateCompletion(testPrompt)
initialize(init, ai) ==
    IF ~validConfig(init.config)
    THEN [init EXCEPT !.phase = "failed"]
    ELSE [init EXCEPT !.phase = "testing", !.testCompletion = generateCompletion(ai)]

NewAIModel(cfg) == [config |-> cfg, phase |-> "constructing", testCompletion |-> "", calls |-> <<>>]

\* the constructor ends with this.initialize()
InitInitialize(cfg) == aiInit = initialize(NewAIModel(cfg), aiModel)

\* initialize() called again by the owner of the interface
Initialize ==
    /\ aiInit.phase = "failed"
    /\ aiInit' = initialize(aiInit, aiModel)
    /\ UNCHANGED aiModel

\* the await of testConnection settles: a rejection passes through the catch
\* blocks of testConnection and initialize; a response with content lets
\* initialize set isInitialized (provider: the provider answers the test prompt)
TestConnectionSettles(provider) ==
    /\ aiInit.phase = "testing"
    /\ IF aiInit.testCompletion = "queued" /\ provider = "content"
       THEN /\ aiInit' = [aiInit EXCEPT !.phase = "initialized", !.testCompletion = ""]
            /\ aiModel' = [aiModel EXCEPT !.isInitialized = TRUE]
       ELSE /\ aiInit' = [aiInit EXCEPT !.phase = "failed", !.testCompletion = ""]
            /\ UNCHANGED aiModel

\* a user of the interface (SignalAnalyzer.extractSignalParameters) calls
\* generateCompletion
UserGeneratesCompletion(prompt) ==
    /\ Len(aiInit.calls) < MaxCompletions
    /\ aiInit' = [aiInit EXCEPT
            !.calls = Append(@, [prompt |-> prompt, outcome |-> generateCompletion(aiModel)])]
    /\ UNCHANGED aiModel

besideInitialize ==
    <<riskVars, signals, engineConfig, engine, controller, brokerOrders, events,
      sizing, analyzerVars, validationCall, robotVars, martingaleCall, telegram, request,
      queueCall, channelCalls, polling>>

NextInitialize ==
    \/ Initialize /\ UNCHANGED besideInitialize
    \/ \E provider \in {"content", "empty"} :
            TestConnectionSettles(provider) /\ UNCHANGED besideInitialize
    \/ \E prompt \in Prompts : UserGeneratesCompletion(prompt) /\ UNCHANGED besideInitialize

----------------------------------------------------------------------------
(* Specifications *)

InitPipeline ==
    /\ signals = <<>>
    /\ InitEngine
    /\ InitController
    /\ brokerOrders = <<>>
    /\ events = [executionCompleted |-> {}, executionFailed |-> {},
                 enhancedTradeExecuted |-> {}, analysisError |-> {}]
    /\ InitAIModel

InitEarlyUnits(aiConfig) ==
    /\ sizing = NoSizing
    /\ InitSignalAnalyzer
    /\ validationCall = NoValidation
    /\ InitRobot
    /\ martingaleCall = NoMartingaleCall
    /\ InitTelegram
    /\ InitExecuteRequest(aiConfig)

InitUnitsOf(aiConfig) ==
    /\ InitEarlyUnits(aiConfig)
    /\ InitInitialize(DefaultInitializeConfig)
    /\ queueCall = NoQueueCall
    /\ InitChannelCalls(DefaultMaxChannels)
    /\ InitPolling

InitUnits == InitUnitsOf(DefaultAIConfig)

\* the risk gate on its own, under every order, context and account state
InitRisk ==
    /\ config \in RiskConfigs
    /\ InitRiskManager
    /\ InitPipeline
    /\ InitUnits
    /\ engineConfig = DefaultEngineConfig

NextRisk ==
    \/ DayPasses /\ UNCHANGED <<pipeVars, unitVars>>
    \/ AssessmentReturned /\ UNCHANGED <<pipeVars, unitVars>>
    \/ \E o \in Orders : \E c \in Contexts(o) :
            AssessTradeRisk(o, c) /\ UNCHANGED <<pipeVars, unitVars>>
    \/ \E b \in Balances : UpdateAccountBalance(b) /\ UNCHANGED <<pipeVars, unitVars>>
    \/ \E id \in TradeIds : RecordTrade(id) /\ UNCHANGED <<pipeVars, unitVars>>
    \/ \E id \in TradeIds, p \in Profits :
            UpdateTradeResult(id, p) /\ UNCHANGED <<pipeVars, unitVars>>

SpecRisk == InitRisk /\ [][NextRisk]_vars

\* the account of the risk manager under balance reports, trades, their
\* results and the resets
NextAccount ==
    \/ DayPasses /\ UNCHANGED <<pipeVars, unitVars>>
    \/ ResetDailyMetrics /\ UNCHANGED <<pipeVars, unitVars>>
    \/ ResetMetrics /\ UNCHANGED <<pipeVars, unitVars>>
    \/ \E b \in Balances : UpdateAccountBalance(b) /\ UNCHANGED <<pipeVars, unitVars>>
    \/ \E id \in TradeIds : RecordTrade(id) /\ UNCHANGED <<pipeVars, unitVars>>
    \/ \E id \in TradeIds, p \in Profits :
            UpdateTradeResult(id, p) /\ UNCHANGED <<pipeVars, unitVars>>

SpecAccount == InitRisk /\ [][NextAccount]_vars

\* position sizing and the risk gate on an account whose balance its owner sets
NextSizing ==
    \/ \E b \in Balances :
            ~sizing.called /\ UpdateAccountBalance(b) /\ UNCHANGED <<pipeVars, unitVars>>
    \/ \E o \in Orders : \E c \in Contexts(o) :
            CalculatePositionSize(o, c) /\ UNCHANGED <<pipeVars, analyzerVars, validationCall, moreVars>>
    \/ SizingReturned /\ UNCHANGED <<pipeVars, analyzerVars, validationCall, moreVars>>
    \/ \E o \in Orders : \E c \in Contexts(o) :
            ~sizing.called /\ AssessTradeRisk(o, c) /\ UNCHANGED <<pipeVars, unitVars>>
    \/ AssessmentReturned /\ UNCHANGED <<pipeVars, unitVars>>

SpecSizing == InitRisk /\ [][NextSizing]_vars

\* the risk gate under calls without tradeParams or without context
NextRiskErrors ==
    \/ DayPasses /\ UNCHANGED <<pipeVars, unitVars>>
    \/ AssessmentReturned /\ UNCHANGED <<pipeVars, unitVars>>
    \/ \E o \in Orders : \E c \in Contexts(o) :
            AssessTradeRisk(o, c) /\ UNCHANGED <<pipeVars, unitVars>>
    \/ AssessTradeRiskOfNull /\ UNCHANGED <<pipeVars, unitVars>>
    \/ \E o \in Orders : AssessTradeRiskInNullContext(o) /\ UNCHANGED <<pipeVars, unitVars>>
    \/ \E b \in Balances : UpdateAccountBalance(b) /\ UNCHANGED <<pipeVars, unitVars>>

SpecRiskErrors == InitRisk /\ [][NextRiskErrors]_vars

\* the configurations of the martingale: the defaults, and martingale switched off
MartingaleConfigs ==
    {DefaultRiskConfig, [DefaultRiskConfig EXCEPT !.martingaleEnabled = FALSE]}

InitMartingale ==
    /\ config \in MartingaleConfigs
    /\ InitRiskManager
    /\ InitPipeline
    /\ InitUnits
    /\ engineConfig = DefaultEngineConfig

besideMartingale ==
    <<pipeVars, sizing, analyzerVars, validationCall, robotVars, telegram, request, lateVars>>

\* calculateMartingaleStep on an account whose balance its owner sets
NextMartingale ==
    \/ \E b \in Balances :
            /\ ~martingaleCall.called
            /\ UpdateAccountBalance(b)
            /\ UNCHANGED <<besideMartingale, martingaleCall>>
    \/ \E originalAmount \in Amounts, currentStep \in MartingaleSteps :
            CalculateMartingaleStep(originalAmount, currentStep) /\ UNCHANGED besideMartingale
    \/ MartingaleStepReturned /\ UNCHANGED besideMartingale

SpecMartingale == InitMartingale /\ [][NextMartingale]_vars

\* the balance that the owner of the account reports to the risk manager
PipelineBalances == {100000}

InitPipe ==
    /\ config = DefaultRiskConfig
    /\ InitRiskManager
    /\ InitPipeline
    /\ InitUnits

\* the controller as start() and stop() run it; nothing starts the engine
NextController ==
    \/ \E b \in PipelineBalances :
            UpdateAccountBalance(b) /\ UNCHANGED <<pipeVars, unitVars>>
    \/ \E sig \in Signals : EmitTradingSignal(sig) /\ UNCHANGED unitVars
    \/ ControllerStart /\ UNCHANGED unitVars
    \/ \E started \in BOOLEAN, outcome \in StrategyOutcomes :
            ControllerStartResumes(started, outcome) /\ UNCHANGED unitVars
    \/ ControllerStop /\ UNCHANGED unitVars
    \/ \E stopped \in BOOLEAN : ControllerStopResumes(stopped) /\ UNCHANGED unitVars
    \/ \E id \in SignalIds : ControllerBrokerReturns(id) /\ UNCHANGED unitVars
    \/ \E outcome \in StrategyOutcomes : AnalysisDelayPasses(outcome) /\ UNCHANGED unitVars

\* the controller with an engine that its owner starts and stops
NextPipe ==
    \/ NextController
    \/ EngineStart /\ UNCHANGED unitVars
    \/ EngineStop /\ UNCHANGED unitVars
    \/ \E sig \in SignalIds, outcome \in BrokerOutcomes, id \in TradeIds :
            EngineBrokerReturns(sig, outcome, id) /\ UNCHANGED unitVars
    \/ \E prompt \in Prompts, fresh \in BOOLEAN :
            GenerateCompletion(prompt, fresh) /\ UNCHANGED unitVars

SpecPipe == InitPipe /\ [][NextPipe]_vars

\* the engine with its owner, the AI controller and the broker: the broker
\* answers every order, and a stopped engine is started again
NextEngine ==
    \/ \E b \in PipelineBalances :
            UpdateAccountBalance(b) /\ UNCHANGED <<pipeVars, unitVars>>
    \/ \E sig \in Signals : EmitTradingSignal(sig) /\ UNCHANGED unitVars
    \/ EngineStart /\ UNCHANGED unitVars
    \/ EngineStop /\ UNCHANGED unitVars
    \/ \E sig \in SignalIds, outcome \in BrokerOutcomes, id \in TradeIds :
            EngineBrokerReturns(sig, outcome, id) /\ UNCHANGED unitVars

SpecEngine ==
    /\ InitPipe
    /\ [][NextEngine]_vars
    /\ WF_vars(EngineStart /\ UNCHANGED unitVars)
    /\ WF_vars(\E sig \in SignalIds, outcome \in BrokerOutcomes, id \in TradeIds :
                    EngineBrokerReturns(sig, outcome, id) /\ UNCHANGED unitVars)

\* the pipeline under a risk configuration that allows one open trade
SingleTradeConfig == [DefaultRiskConfig EXCEPT !.maxConcurrentTrades = 1]

InitSingleTrade ==
    /\ config = SingleTradeConfig
    /\ InitRiskManager
    /\ InitPipeline
    /\ InitUnits

SpecSingleTrade == InitSingleTrade /\ [][NextPipe]_vars

\* every await of the controller settles: the AI controller, the broker and the
\* timer answer; the owner and the AI controller call when they like
ControllerFairness ==
    /\ WF_vars(\E started \in BOOLEAN, outcome \in StrategyOutcomes :
                    ControllerStartResumes(started, outcome) /\ UNCHANGED unitVars)
    /\ WF_vars(\E stopped \in BOOLEAN : ControllerStopResumes(stopped) /\ UNCHANGED unitVars)
    /\ WF_vars(\E id \in SignalIds : ControllerBrokerReturns(id) /\ UNCHANGED unitVars)
    /\ WF_vars(\E outcome \in StrategyOutcomes :
                    AnalysisDelayPasses(outcome) /\ UNCHANGED unitVars)

SpecController == InitPipe /\ [][NextController]_vars /\ ControllerFairness

\* the signal analyzer on its own, with a model that answers as it likes
SpecAnalyzer == InitPipe /\ [][NextAnalyzer]_vars

\* validateSignalParameters on every object of RawParameters
SpecValidation == InitPipe /\ [][NextValidation]_vars

\* the page script of the original bot, with its user, its strategies and the broker
SpecRobot == InitPipe /\ [][NextRobot]_vars

\* executeRequest under every configuration of provider and retryAttempts
InitRequest ==
    /\ config = DefaultRiskConfig
    /\ InitRiskManager
    /\ InitPipeline
    /\ \E aiConfig \in AIConfigs : InitUnitsOf(aiConfig)

SpecRequest == InitRequest /\ [][NextRequest]_vars

\* the channels of the Telegram integration and the signals they post
SpecTelegram == InitPipe /\ [][NextTelegram]_vars

\* the channels of an integration under calls of addChannel and removeChannel
InitChannels ==
    /\ config = DefaultRiskConfig
    /\ InitRiskManager
    /\ InitPipeline
    /\ InitEarlyUnits(DefaultAIConfig)
    /\ InitInitialize(DefaultInitializeConfig)
    /\ queueCall = NoQueueCall
    /\ \E maxChannels \in ChannelLimits : InitChannelCalls(maxChannels)
    /\ InitPolling

SpecChannels == InitChannels /\ [][NextChannels]_vars

\* the polling of updates, with a server that answers as it likes
SpecPolling == InitPipe /\ [][NextPolling]_vars

\* addToAnalysisQueue on every queue of SortedQueues
InitQueue ==
    /\ config = DefaultRiskConfig
    /\ InitRiskManager
    /\ InitPipeline
    /\ InitEarlyUnits(DefaultAIConfig)
    /\ InitInitialize(DefaultInitializeConfig)
    /\ \E queue \in SortedQueues :
            /\ \A i \in 1..(Len(queue) - 1) : queue[i].priority >= queue[i + 1].priority
            /\ queueCall = [NoQueueCall EXCEPT !.before = queue]
    /\ InitChannelCalls(DefaultMaxChannels)
    /\ InitPolling

NextQueue ==
    \E sig \in QueueSignals :
        /\ AddToAnalysisQueue(sig)
        /\ UNCHANGED <<riskVars, pipeVars, sizing, analyzerVars, validationCall, robotVars,
                       martingaleCall, telegram, request, aiInit, channelCalls, polling>>

SpecQueue == InitQueue /\ [][NextQueue]_vars

\* the AI model interface under every configuration; every await settles
InitInitializeSpec ==
    /\ config = DefaultRiskConfig
    /\ InitRiskManager
    /\ InitPipeline
    /\ InitEarlyUnits(DefaultAIConfig)
    /\ \E cfg \in InitializeConfigs : InitInitialize(cfg)
    /\ queueCall = NoQueueCall
    /\ InitChannelCalls(DefaultMaxChannels)
    /\ InitPolling

SpecInitialize ==
    /\ InitInitializeSpec
    /\ [][NextInitialize]_vars
    /\ WF_vars(\E provider \in {"content", "empty"} :
                    TestConnectionSettles(provider) /\ UNCHANGED besideInitialize)

----------------------------------------------------------------------------
(* Claims about the risk gate (SpecRisk) *)

\* the order and the context of the assessment just returned
AssessedOrder == assessment.tradeParams
AssessedContext == assessment.ctx
AssessedResult == assessment.result

ParameterReasons ==
    {"Invalid or missing action parameter", "Missing asset parameter",
     "Invalid or missing amount parameter"}

InvalidParameters(o) ==
    o.action \notin {"CALL", "PUT"} \/ o.asset = "" \/ o.amount <= 0

\* the order states a confidence, and it is below config.confidenceThreshold
BelowThreshold(o) ==
    o.confidence # 0 /\ o.confidence < config.confidenceThreshold

DailyLossExceeded ==
    100 * accountData.dailyPL < -(config.maxDailyLoss * accountData.maxDailyBalance)

\* the order passes parameter validation and the account can carry its stake
OtherwiseValid(o, ctx) ==
    /\ o.action \in {"CALL", "PUT"}
    /\ o.asset # ""
    /\ o.amount > 0
    /\ o.amount <= config.maxTradeAmount
    /\ accountData.balance > 0
    /\ calculatePositionSize(o, ctx, accountData, config) <= accountData.balance

\* C1: an order with invalid parameters (action not CALL/PUT, asset missing,
\* amount missing or <= 0) assessed on an account with balance <= 0 is rejected
\* with a parameter-validity reason, never with the insufficient-balance reason.
C1_ParameterReasonFirst ==
    (assessment.called /\ InvalidParameters(AssessedOrder) /\ accountData.balance <= 0)
        => (~AssessedResult.approved /\ AssessedResult.reason \in ParameterReasons)

C1_Witness ==
    /\ assessment.called
    /\ AssessedOrder.action = "CALL"
    /\ AssessedOrder.asset = ""
    /\ accountData.balance <= 0
    /\ AssessedResult.reason = "Missing asset parameter"

\* C2: assessTradeRisk never approves an order whose confidence is below the
\* configured confidenceThreshold.
\* (An order that carries no confidence at all is left aside: confidence 0
\* stands for the missing field.)
C2_LowConfidenceRejected ==
    (assessment.called /\ BelowThreshold(AssessedOrder))
        => ~AssessedResult.approved

\* C8: while dailyPL < -(maxDailyLoss/100) * maxDailyBalance, every otherwise
\* valid order is rejected with 'Daily loss limit reached', whatever its confidence.
C8_DailyLossLimitRejects ==
    (assessment.called /\ DailyLossExceeded
        /\ OtherwiseValid(AssessedOrder, AssessedContext))
        => (~AssessedResult.approved /\ AssessedResult.reason = "Daily loss limit reached")

C8_Witness ==
    /\ assessment.called
    /\ accountData.dailyPL = -5100
    /\ accountData.maxDailyBalance = 10000
    /\ config.maxDailyLoss = 50
    /\ AssessedOrder.confidence = 75
    /\ OtherwiseValid(AssessedOrder, AssessedContext)
    /\ AssessedResult.reason = "Daily loss limit reached"

\* C9: no order is approved while activeTrades.size >= maxConcurrentTrades, and
\* an order that passes the earlier checks (parameters, account, daily limits)
\* is then rejected with the maximum-concurrent-trades reason.
C9_ConcurrencyLimitRejects ==
    (assessment.called /\ Cardinality(activeTrades) >= config.maxConcurrentTrades)
        => /\ ~AssessedResult.approved
           /\ (OtherwiseValid(AssessedOrder, AssessedContext)
                /\ ~DailyLossExceeded
                /\ accountData.dailyTrades < DailyTradeLimit)
               => AssessedResult.reason = "Maximum concurrent trades reached"

C9_Witness ==
    /\ assessment.called
    /\ Cardinality(activeTrades) >= config.maxConcurrentTrades
    /\ AssessedResult.reason = "Maximum concurrent trades reached"

\* the first failing check of the claimed checklist, "none" when all pass; an
\* amount above maxTradeAmount is taken as a failure of parameter validity,
\* where validateTradeParams tests it
C10_FirstFailingCheck(o, ctx) ==
    LET size == calculatePositionSize(o, ctx, accountData, config)
    IN  IF InvalidParameters(o) \/ o.amount > config.maxTradeAmount THEN "parameters"
        ELSE IF accountData.balance <= 0 THEN "balance"
        ELSE IF BelowThreshold(o) THEN "confidence"
        ELSE IF DailyLossExceeded THEN "daily loss"
        ELSE IF Cardinality(activeTrades) >= config.maxConcurrentTrades THEN "concurrency"
        ELSE IF size > accountData.balance THEN "amount limits"
        ELSE "none"

C10_ReasonsOf(check) ==
    CASE check = "parameters" -> ParameterReasons \cup {"Trade amount exceeds maximum"}
      [] check = "balance" -> {"Insufficient account balance"}
      [] check = "confidence" -> {"Confidence below threshold"}
      [] check = "daily loss" -> {"Daily loss limit reached"}
      [] check = "concurrency" -> {"Maximum concurrent trades reached"}
      [] check = "amount limits" -> {"Position size exceeds account balance"}
      [] OTHER -> {}

\* C10: the reason returned by assessTradeRisk is that of the first failing
\* check in the order parameter validity, balance > 0, confidence threshold,
\* daily loss limit, concurrency limit, post-sizing amount limits.
C10_FirstFailingCheckDecides ==
    assessment.called =>
        LET check == C10_FirstFailingCheck(AssessedOrder, AssessedContext)
        IN  check # "none"
                => (~AssessedResult.approved
                    /\ AssessedResult.reason \in C10_ReasonsOf(check))

----------------------------------------------------------------------------
(* Claims about the pipeline (SpecPipe, SpecController) *)

OrdersOf(id) == {i \in DOMAIN brokerOrders : brokerOrders[i].signal = id}

----------------------------------------------------------------------------
(* Claims about position sizing (SpecRisk, SpecSizing) *)

\* the confidence of the order and of its context lies in [0,100]
ConfidenceInRange(o, ctx) ==
    o.confidence \in 0..100 /\ ctx.confidence \in 0..100

\* C11: every approval returned by assessTradeRisk for an order with a
\* confidence in [0,100] carries a positionSize with
\* 0 < positionSize <= accountData.balance and positionSize <= maxTradeAmount
C11_ApprovedStakeWithinLimits ==
    (/\ assessment.called
     /\ AssessedResult.approved
     /\ ConfidenceInRange(AssessedOrder, AssessedContext))
        => /\ 0 < AssessedResult.positionSize
           /\ AssessedResult.positionSize <= accountData.balance
           /\ AssessedResult.positionSize <= config.maxTradeAmount

\* the order, the context and the result of the sizing just returned
SizedOrder == sizing.tradeParams
SizedContext == sizing.ctx
SizedStake == sizing.result

\* C12: for every confidence in [0,100], base amount (> 0) and balance,
\* calculatePositionSize returns at most
\* min(maxTradeAmount, maxRiskPerTrade% * balance, accountRiskLimit% * balance)
C12_StakeWithinCaps ==
    (sizing.called /\ SizedOrder.amount > 0 /\ ConfidenceInRange(SizedOrder, SizedContext))
        => /\ SizedStake <= config.maxTradeAmount
           /\ 100 * SizedStake <= config.maxRiskPerTrade * accountData.balance
           /\ 100 * SizedStake <= config.accountRiskLimit * accountData.balance

\* assessTradeRisk has rejected the order it was handed
C13_RejectedOutright == ~AssessedResult.approved /\ AssessedResult.positionSize = 0

\* C13: with accountData.balance <= 0, calculatePositionSize returns no
\* positive stake (whatever base amount > 0 it is handed) and assessTradeRisk
\* rejects the order
C13_NoStakeWithoutBalance ==
    accountData.balance <= 0
        => /\ (sizing.called /\ SizedOrder.amount > 0) => SizedStake <= 0
           /\ assessment.called => C13_RejectedOutright

\* the RiskManager as its constructor leaves it: no balance reported, no trade
\* recorded
NewlyConstructed ==
    /\ accountData = [balance |-> 0, dailyPL |-> 0, dailyTrades |-> 0, maxDailyBalance |-> 0]
    /\ activeTrades = {}
    /\ tradeHistory = <<>>

\* the order has a valid action and asset, an amount within maxTradeAmount and
\* a confidence at or above the threshold
WellFormedOrder(o) ==
    /\ o.action \in {"CALL", "PUT"}
    /\ o.asset # ""
    /\ o.amount > 0
    /\ o.amount <= config.maxTradeAmount
    /\ o.confidence >= config.confidenceThreshold

\* C14: a well-formed order (CALL, EUR/USD, amount 10, confidence 75) is
\* approved by assessTradeRisk on a newly constructed RiskManager
C14_FreshManagerApproves ==
    (assessment.called /\ NewlyConstructed /\ WellFormedOrder(AssessedOrder))
        => AssessedResult.approved

----------------------------------------------------------------------------
(* Claims about the signal analyzer (SpecAnalyzer, SpecValidation) *)

\* calls a and b of analyzeSignal were handed the same signal (channelId, text
\* and timestamp), b after a and less than the cache window later
SameSignalWithinWindow(a, b) ==
    /\ a < b
    /\ calls[a].signal = calls[b].signal
    /\ calls[b].submitted - calls[a].submitted < CacheWindow

\* C15: of two submissions of the same signal less than 5 minutes apart, the
\* second returns the analysis that the first returned, and
\* aiModel.generateCompletion is invoked at most once for the two
C15_CachedAnalysisIdempotent ==
    \A a, b \in 1..Len(calls) :
        SameSignalWithinWindow(a, b)
            => /\ (calls[a].phase = "returned" /\ calls[b].phase = "returned")
                    => calls[b].analysis = calls[a].analysis
               /\ ~(calls[a].invokedModel /\ calls[b].invokedModel)

\* the signal of the latest analysis
LatestSignal == calls[latest.call].signal

\* C16: extractSignalParameters never throws: when the model is unavailable, its
\* call is rejected, its content is empty, or its content is no JSON or no
\* JSON object, the result is that of fallbackParameterExtraction
C16_ExtractionNeverThrows ==
    latest.call # 0
        => /\ ~latest.threw
           /\ latest.outcome.kind \in ModelFailures \cup {"noModel"}
                => latest.signalParams = FallbackParameters[LatestSignal]

\* C17: for model output with isSignal false, validateSignalParameters returns
\* action, asset, timeframe, expiration and broker as null and confidence as 0
C17_NonSignalFieldsCleared ==
    (validationCall.called /\ ~validationCall.params.isSignal)
        => /\ validationCall.validated.action = ""
           /\ validationCall.validated.asset = <<>>
           /\ validationCall.validated.timeframe = <<>>
           /\ validationCall.validated.expiration = Null
           /\ validationCall.validated.broker = <<>>
           /\ validationCall.validated.confidence = 0

\* C18: calculateConfidence returns a value in [0,100] for every parameter set,
\* message and channel history that the analyses reach
C18_ConfidenceWithinBounds ==
    (latest.call # 0 /\ ~latest.threw) => latest.confidence \in 0..100

\* an analysis of a signal on a channel with a history that counts, whose sum
\* of confidence and bonuses is above 100
C18_Witness ==
    /\ latest.call # 0
    /\ latest.signalParams.isSignal
    /\ latest.historicalBonus.num # 0
    /\ LET sum == confidenceSum(AnalyzerSignals[LatestSignal], latest.signalParams,
                                [c \in AnalyzerChannels |-> latest.historical], AnalyzerConfig)
       IN  sum.num > 100 * sum.den
    /\ latest.confidence = 100

\* the bonus (the fraction num / den) is the one claimed for the record
\* historical of a channel
ClaimedBonus(historical, bonus) ==
    IF ~historical.exists \/ historical.signalsCount < AnalyzerConfig.minHistoricalSignals
    THEN bonus.num = 0
    ELSE /\ bonus.num * historical.signalsCount
                = (20 * historical.successfulSignals - 10 * historical.signalsCount) * bonus.den
         /\ -10 * bonus.den <= bonus.num
         /\ bonus.num <= 10 * bonus.den

\* C19: after any sequence of analysed signals, a channel without record or
\* with signalsCount < minHistoricalSignals contributes the bonus 0; from
\* minHistoricalSignals on the bonus is (successfulSignals/signalsCount - 0.5) * 20,
\* within [-10, +10]
C19_HistoricalBonusGated ==
    /\ \A c \in AnalyzerChannels :
            ClaimedBonus(analyzer.historicalData[c],
                         getHistoricalPerformanceBonus(c, analyzer.historicalData,
                                                       AnalyzerConfig))
    /\ (latest.call # 0 /\ ~latest.threw /\ latest.signalParams.isSignal)
            => ClaimedBonus(latest.historical, latest.historicalBonus)

\* the latest analysis has taken a bonus other than 0 from the history of its
\* channel, which an earlier analysis had left below minHistoricalSignals
C19_Witness ==
    /\ latest.call # 0
    /\ latest.signalParams.isSignal
    /\ latest.historical.signalsCount >= AnalyzerConfig.minHistoricalSignals
    /\ latest.historicalBonus.num # 0

\* C20: changing one of timeframe, expiration or broker from null to a value,
\* all other fields equal, never decreases calculateParameterCompleteness
C20_CompletenessMonotone ==
    validationCall.called
        => LET params == validationCall.validated
           IN  /\ params.timeframe = <<>>
                    => \A timeframe \in Range(timeframes) :
                         calculateParameterCompleteness([params EXCEPT !.timeframe = timeframe])
                            >= validationCall.completeness
               /\ params.expiration = Null
                    => \A expiration \in {Number(60), Number(300)} :
                         calculateParameterCompleteness([params EXCEPT !.expiration = expiration])
                            >= validationCall.completeness
               /\ params.broker = <<>>
                    => \A broker \in Range(brokers) :
                         calculateParameterCompleteness([params EXCEPT !.broker = broker])
                            >= validationCall.completeness

\* a signal with action and asset whose optional fields are all null
C20_Witness ==
    /\ validationCall.called
    /\ validationCall.validated.isSignal
    /\ validationCall.validated.action # ""
    /\ validationCall.validated.asset # <<>>
    /\ validationCall.validated.timeframe = <<>>
    /\ validationCall.validated.expiration = Null
    /\ validationCall.validated.broker = <<>>

----------------------------------------------------------------------------
(* Claims about the martingale follow-up deals of the original bot (SpecRobot) *)

martingaleOn == (robot.settings.strategy = "martin" \/ robot.settings.useMartin)
                    /\ robot.settings.started

\* 'successcloseOrder' of robot deal id arrives in this step
RobotDealCloses(id) ==
    /\ id \in DOMAIN orders
    /\ id \in robot.opened
    /\ orders[id].state = "open"
    /\ orders'[id].state = "closed"

RECURSIVE multiplierProduct(_, _)
multiplierProduct(martinSteps, n) ==
    IF n = 0 THEN 1 ELSE martinSteps[n] * multiplierProduct(martinSteps, n - 1)

RECURSIVE scalePower(_)
scalePower(n) == IF n = 0 THEN 1 ELSE MultiplierScale * scalePower(n - 1)

LastFutureDeal == robot'.futureDeals[Len(robot'.futureDeals)]

\* amount is startSum times the first n multipliers, within a cent
WithinCent(amount, startSum, martinSteps, n) ==
    /\ amount * scalePower(n) > startSum * multiplierProduct(martinSteps, n) - scalePower(n)
    /\ amount * scalePower(n) < startSum * multiplierProduct(martinSteps, n) + scalePower(n)

\* C21: after N consecutive losing deals, N smaller than the length of
\* martinSteps, the stake of the follow-up deal is the base amount (startSum)
\* times the product of the first N multipliers, within a cent (the deal that
\* closes having had the stake of N - 1 losses)
C21_EscalationFollowsTable ==
    [][\A id \in 1..MaxDeals :
        LET n == orders[id].losses + 1
            martinSteps == robot.settings.martinSteps
        IN  (/\ RobotDealCloses(id)
             /\ martingaleOn
             /\ robot.startSum # 0
             /\ orders'[id].profit < 0
             /\ n < Len(martinSteps)
             /\ WithinCent(orders[id].amount, robot.startSum, martinSteps, n - 1))
            => /\ Len(robot'.futureDeals) = Len(robot.futureDeals) + 1
               /\ WithinCent(LastFutureDeal.sum, robot.startSum, martinSteps, n)
      ]_vars

\* C22: a robot deal that closes with a profit queues no follow-up deal, and
\* every deal that the robot places at step 0 has the base amount
C22_WinResetsSequence ==
    /\ [][\A id \in 1..MaxDeals :
            (RobotDealCloses(id) /\ martingaleOn /\ orders'[id].profit > 0)
                => robot'.futureDeals = robot.futureDeals]_vars
    /\ [](\A id \in DOMAIN orders :
            (orders[id].robot /\ orders[id].losses = 0) => orders[id].amount = BaseAmount)

\* a deal of an escalated sequence has closed with a profit, and nothing is queued
C22_Witness ==
    /\ martingaleOn
    /\ robot.futureDeals = <<>>
    /\ \E id \in DOMAIN orders :
            /\ orders[id].robot
            /\ orders[id].losses >= 1
            /\ orders[id].state = "closed"
            /\ orders[id].profit > 0
            /\ id \notin robot.opened

\* C26: a robot deal that closes with profit 0 while martingale is on queues
\* exactly one follow-up deal, on its asset, in its direction, of its amount,
\* at its step
C26_BreakevenRepeatsDeal ==
    [][\A id \in 1..MaxDeals :
        (RobotDealCloses(id) /\ martingaleOn /\ orders'[id].profit = 0)
            => robot'.futureDeals =
                    Append(robot.futureDeals,
                           [pair |-> orders[id].asset, dur |-> orders[id].action,
                            sum |-> orders[id].amount, losses |-> orders[id].losses])
      ]_vars

\* an escalated deal has closed with profit 0, and its repetition is queued
C26_Witness ==
    /\ martingaleOn
    /\ robot.futureDeals # <<>>
    /\ \E id \in DOMAIN orders :
            /\ orders[id].robot
            /\ orders[id].losses >= 1
            /\ orders[id].state = "closed"
            /\ orders[id].profit = 0
            /\ robot.futureDeals[Len(robot.futureDeals)] =
                    [pair |-> orders[id].asset, dur |-> orders[id].action,
                     sum |-> orders[id].amount, losses |-> orders[id].losses]

\* the amounts that getNextMartingaleStep compares the closed amount with
RECURSIVE tablePosition(_, _, _)
tablePosition(martinSteps, startSum, t) ==
    IF t = 0 THEN startSum
    ELSE floorStep(tablePosition(martinSteps, startSum, t - 1), martinSteps[t])

\* C27: when a robot deal closes at a loss beyond the multiplier table (after
\* as many losses as the table has steps, its amount matching no position
\* of the table), the stake of the follow-up deal is twice the base
\* amount (startSum)
C27_BeyondTableTwiceBase ==
    [][\A id \in 1..MaxDeals :
        LET martinSteps == robot.settings.martinSteps
        IN  (/\ RobotDealCloses(id)
             /\ martingaleOn
             /\ robot.startSum # 0
             /\ orders'[id].profit < 0
             /\ orders[id].losses >= Len(martinSteps)
             /\ \A t \in 0..(Len(martinSteps) - 1) :
                    orders[id].amount # tablePosition(martinSteps, robot.startSum, t))
            => /\ Len(robot'.futureDeals) = Len(robot.futureDeals) + 1
               /\ LastFutureDeal.sum = 2 * robot.startSum
      ]_vars

----------------------------------------------------------------------------
(* Claims about RiskManager.calculateMartingaleStep (SpecMartingale) *)

\* C23: the stake that calculateMartingaleStep returns for a positive
\* originalAmount exceeds neither 10 * originalAmount nor 50% of the balance,
\* whatever the step index and the balance
C23_MartingaleStakeCapped ==
    (martingaleCall.called /\ martingaleCall.originalAmount > 0)
        => /\ martingaleCall.result <= 10 * martingaleCall.originalAmount
           /\ 2 * martingaleCall.result <= accountData.balance

----------------------------------------------------------------------------
(* Claims about the performance record of a Telegram channel (SpecTelegram) *)

\* no handleTradingSignal call of the channel is in flight
SignalsProcessed(channelId) ==
    \A h \in DOMAIN telegram.handling : telegram.handling[h] # channelId

----------------------------------------------------------------------------
(* Claims about AIModelInterface.executeRequest (SpecRequest) *)

\* C25: executeRequest makes its first attempt and at most retryAttempts
\* retries, and when every attempt fails it ends by throwing
C25_RetriesBounded ==
    request.call.retries <= request.config.retryAttempts

----------------------------------------------------------------------------
(* Claims about the frame of the risk gate (SpecRisk, SpecRiskErrors) *)

\* a call of assessTradeRisk, and with it of resetDailyMetrics, is this step
AssessmentStarts == ~assessment.called /\ assessment'.called

\* C28: resetDailyMetrics at a day rollover sets dailyPL and dailyTrades to 0
\* and leaves balance, maxDailyBalance, activeTrades and tradeHistory as they
\* are; without a rollover it changes nothing
C28_RolloverResetsDailyCountsOnly ==
    [][AssessmentStarts =>
        /\ accountData'.balance = accountData.balance
        /\ accountData'.maxDailyBalance = accountData.maxDailyBalance
        /\ activeTrades' = activeTrades
        /\ tradeHistory' = tradeHistory
        /\ dayElapsed => (accountData'.dailyPL = 0 /\ accountData'.dailyTrades = 0)
        /\ ~dayElapsed => accountData' = accountData
      ]_vars

\* a rollover has reset the counts of a day on which a trade was closed, on an
\* account with a high-water mark
C28_Witness ==
    /\ assessment.called
    /\ tradeHistory # <<>>
    /\ accountData.dailyPL = 0
    /\ accountData.dailyTrades = 0
    /\ accountData.maxDailyBalance > 0

\* C29: a call of assessTradeRisk, approved or rejected, leaves accountData,
\* activeTrades and tradeHistory as they are
C29_AssessmentChangesNothing ==
    [][AssessmentStarts =>
        /\ accountData' = accountData
        /\ activeTrades' = activeTrades
        /\ tradeHistory' = tradeHistory
      ]_vars

\* C30: an exception raised inside assessTradeRisk reaches the caller as an
\* error, not as a result {approved: false, reason}
C30_GateErrorsPropagate ==
    (assessment.called /\ assessment.raised) => assessment.threw


----------------------------------------------------------------------------
(* SignalAnalyzer: the life of a cache entry *)

\* the entries of analysisCache that are older than the cache window
expiredEntries(cache, time) == {entry \in cache : time - entry.timestamp >= CacheWindow}

\* a call of analyzeSignal returns in this step
AnalyzeSignalReturns ==
    \E c \in 1..Len(calls') :
        /\ calls'[c].phase = "returned"
        /\ c <= Len(calls) => calls[c].phase # "returned"

\* C31: analysisCache stays bounded: an entry older than the 5-minute window
\* is evicted (at the latest when a call of analyzeSignal returns its
\* analysis) and is not kept for the life of the process.
C31_ExpiredEntriesEvicted ==
    [][AnalyzeSignalReturns => expiredEntries(analyzer'.analysisCache, now') = {}]_vars


----------------------------------------------------------------------------
(* AIModelInterface: initialize *)

\* C32: with a valid configuration and a provider that answers, initialize
\* eventually completes with isInitialized = true, and generateCompletion
\* then accepts requests.
C32_InitializeCompletes ==
    validConfig(aiInit.config) => <>(aiModel.isInitialized /\ generateCompletion(aiModel) = "queued")


----------------------------------------------------------------------------
(* TradingEngine: orders at the broker *)

\* the orders that executeTrade and executeManualTrade have handed to the
\* broker and that the broker has not answered yet
OpenBrokerOrders == Cardinality(engine.inBroker) + Cardinality(controller.inBroker)

EngineHasRun ==
    \/ events.executionCompleted \cup events.executionFailed # {}
    \/ engine.inBroker # {}
    \/ \E i \in 1..Len(brokerOrders) : brokerOrders[i].via = "executionQueue"

Enqueued(id) == \E i \in 1..Len(engine.executionQueue) : engine.executionQueue[i] = id

----------------------------------------------------------------------------
(* RiskManager: trade results and the high-water mark *)

\* resetMetrics has run in this step: the account is as constructed
AccountReset ==
    /\ accountData' = [balance |-> 0, dailyPL |-> 0, dailyTrades |-> 0, maxDailyBalance |-> 0]
    /\ activeTrades' = {} /\ tradeHistory' = <<>>

\* the trade leaves activeTrades in this step, and not by resetMetrics
TradeCloses(id) == id \in activeTrades /\ id \notin activeTrades' /\ ~AccountReset

\* C36: updateTradeResult counts the profit of a trade at most once: the first
\* result for an active trade moves it from activeTrades to tradeHistory and
\* adds its profit to dailyPL; a result for an unknown or closed id changes
\* nothing.
C36_ResultCountedOnce ==
    /\ [](\A id \in TradeIds, profit \in Profits :
                id \notin activeTrades => updateTradeResult(RiskState, id, profit) = RiskState)
    /\ [](\A i, j \in 1..Len(tradeHistory) : tradeHistory[i] = tradeHistory[j] => i = j)
    /\ [][\A id \in TradeIds :
                TradeCloses(id) =>
                    /\ tradeHistory' = Append(tradeHistory, id)
                    /\ \E profit \in Profits :
                            accountData'.dailyPL = accountData.dailyPL + profit]_vars
    /\ [][(accountData'.dailyPL # accountData.dailyPL /\ accountData'.dailyPL # 0)
                => \E id \in TradeIds : TradeCloses(id)]_vars

\* a trade is closed with a profit or loss counted, another is still active
C36_Witness ==
    /\ tradeHistory # <<>>
    /\ accountData.dailyPL # 0
    /\ activeTrades # {}


\* C37: in every state reached through updateAccountBalance, recordTrade,
\* updateTradeResult and resetDailyMetrics, maxDailyBalance >= balance, and
\* maxDailyBalance decreases through resetMetrics only.
C37_HighWaterMark ==
    /\ [](accountData.maxDailyBalance >= accountData.balance)
    /\ [][accountData'.maxDailyBalance < accountData.maxDailyBalance => AccountReset]_vars

\* a losing trade has closed on a reported balance, after a rollover of the day
C37_Witness ==
    /\ accountData.balance > 0
    /\ accountData.dailyPL < 0
    /\ tradeHistory # <<>>
    /\ accountData.dailyTrades = 0
    /\ accountData.maxDailyBalance >= accountData.balance


----------------------------------------------------------------------------
(* TradingController: the analysis queue *)

\* the items of the queue and the new item that the call has not kept
Discarded == Range(Append(queueCall.before, queueCall.item)) \ Range(queueCall.after)

\* C38: after every call of addToAnalysisQueue the queue holds at most 100
\* items sorted by non-increasing priority, and when the bound is exceeded only
\* items of the lowest priority are discarded.
C38_QueueBoundedAndSorted ==
    queueCall.called =>
        /\ Len(queueCall.after) <= AnalysisQueueLimit
        /\ Len(queueCall.after) = Min(Len(queueCall.before) + 1, AnalysisQueueLimit)
        /\ \A i \in 1..(Len(queueCall.after) - 1) :
                queueCall.after[i].priority >= queueCall.after[i + 1].priority
        /\ Range(queueCall.after) \subseteq Range(Append(queueCall.before, queueCall.item))
        /\ \A d \in Discarded, k \in Range(queueCall.after) : d.priority <= k.priority

\* a full queue has taken the new item and has dropped an item of lower priority
C38_Witness ==
    /\ queueCall.called
    /\ Len(queueCall.before) = AnalysisQueueLimit
    /\ queueCall.item \in Range(queueCall.after)
    /\ \E d \in Discarded : d.priority < queueCall.item.priority


----------------------------------------------------------------------------
(* TelegramIntegration: channels and updates *)

\* C39: channels never holds more than maxChannels entries, under any
\* interleaving of addChannel calls (which await getChatInfo between the size
\* check and the insertion) and removeChannel calls.
C39_ChannelsWithinLimit ==
    Cardinality(DOMAIN telegram.channels) <= channelCalls.maxChannels


\* C40: each Telegram update is processed at most once and lastUpdateId never
\* decreases, even when a tick of the polling interval fires while an earlier
\* checkForUpdates call awaits its response or processes its batch.
C40_UpdatesProcessedOnce ==
    /\ [](\A u \in UpdateIds : polling.processed[u] <= 1)
    /\ [][polling'.lastUpdateId >= polling.lastUpdateId]_vars

============================================================================
